---------------------------- MODULE Spec2Model ----------------------------
(***************************************************************************)
(* KS236 ultrasonic probe RS485 protocol engine (QianQihua/FAT-HALO).      *)
(*                                                                         *)
(* Four classes are modelled, each from its own source file:               *)
(*   ER  KS236EnergyReader   src/ks236_energy_get.py                       *)
(*   PR  KS236PValueReader   src/ks236_p_get.py                            *)
(*   ES  KS236EnergySetter   src/ks236_energy_set.py                       *)
(*   PS  KS236PValueSetter   src/ks236_p_set.py                            *)
(*                                                                         *)
(* Byte strings are sequences of integers.  Python indexes from 0, TLA+    *)
(* from 1: At(r, i) is Python's r[i].  The serial port is the environment: *)
(* what each of its calls does (return, return short, raise, and the bytes *)
(* a read delivers) is chosen nondeterministically per attempt.  Every     *)
(* call made on the port and every time.sleep is appended to log.          *)
(***************************************************************************)
EXTENDS Integers, Sequences, FiniteSets, TLC

(***************************************************************************)
(* Bound of the model: max_retries is drawn from 0..MaxRetries.            *)
(***************************************************************************)
MaxRetries == 3

(***************************************************************************)
(* Bytes                                                                   *)
(***************************************************************************)
At(r, i) == r[i + 1]

RECURSIVE XorBits(_, _, _)
XorBits(a, b, n) ==
    IF n = 0 THEN 0
    ELSE (((a % 2) + (b % 2)) % 2) + (2 * XorBits(a \div 2, b \div 2, n - 1))

\* Python's a ^ b on byte values
Xor(a, b) == XorBits(a, b, 8)

\* f"{b:02X}": the two hexadecimal digits of a byte, high digit first
Hex(b) == <<b \div 16, b % 16>>

(***************************************************************************)
(* Protocol constants and parameter tables                                 *)
(***************************************************************************)
ADDR_CODE == 232
CMD_CODE == 153

ER_PROBE_PARAMS ==
    (1 :> 209 @@ 2 :> 210 @@ 3 :> 211 @@ 4 :> 212 @@ 5 :> 213 @@
     6 :> 214 @@ 7 :> 215 @@ 8 :> 216 @@ 9 :> 217)
ER_EXPECTED_RESPONSE_LENGTH == 15

PR_PROBE_PARAMS ==
    (1 :> 225 @@ 2 :> 226 @@ 3 :> 227 @@ 4 :> 228 @@ 5 :> 229 @@
     6 :> 230 @@ 7 :> 231 @@ 8 :> 232 @@ 9 :> 233)
PR_EXPECTED_RESPONSE_LENGTH == 21

\* variant, not the program's: the energy temporary codes start at 0xC1
ES_PROBE_TEMP_PARAMS_from_0xC1 == [n \in 1..12 |-> 192 + n]

ES_PROBE_TEMP_PARAMS ==
    (1 :> 177 @@ 2 :> 178 @@ 3 :> 179 @@ 4 :> 180 @@ 5 :> 181 @@
     6 :> 182 @@ 7 :> 183 @@ 8 :> 184 @@ 9 :> 185 @@ 10 :> 186 @@
     11 :> 187 @@ 12 :> 188)
ES_PROBE_PERM_PARAMS ==
    (1 :> 113 @@ 2 :> 114 @@ 3 :> 115 @@ 4 :> 116 @@ 5 :> 117 @@
     6 :> 118 @@ 7 :> 119 @@ 8 :> 120 @@ 9 :> 121 @@ 10 :> 122 @@
     11 :> 123 @@ 12 :> 124)
ES_PROBE_QUERY_PARAMS ==
    (1 :> 209 @@ 2 :> 210 @@ 3 :> 211 @@ 4 :> 212 @@ 5 :> 213 @@
     6 :> 214 @@ 7 :> 215 @@ 8 :> 216 @@ 9 :> 217 @@ 10 :> 218 @@
     11 :> 219 @@ 12 :> 220)
\* RANGE_NAMES keys 2.5, 1.5, 6.5 in tenths of a metre
ES_RANGE_NAMES == {25, 15, 65}
ES_FIXED_PARAMS == <<44, 64>>

PS_PROBE_TEMP_PARAMS ==
    (1 :> 193 @@ 2 :> 194 @@ 3 :> 195 @@ 4 :> 196 @@ 5 :> 197 @@
     6 :> 198 @@ 7 :> 199 @@ 8 :> 200 @@ 9 :> 201)

\* variant, not the program's: the permanent table holds the temporary codes
PS_PROBE_PERM_PARAMS_temporary == [n \in 1..9 |-> 192 + n]

PS_PROBE_PERM_PARAMS ==
    (1 :> 129 @@ 2 :> 130 @@ 3 :> 131 @@ 4 :> 132 @@ 5 :> 133 @@
     6 :> 134 @@ 7 :> 135 @@ 8 :> 136 @@ 9 :> 137)
PS_PROBE_QUERY_PARAMS ==
    (1 :> 225 @@ 2 :> 226 @@ 3 :> 227 @@ 4 :> 228 @@ 5 :> 229 @@
     6 :> 230 @@ 7 :> 231 @@ 8 :> 232 @@ 9 :> 233)

\* the keys of P_DESCRIPTIONS, in order: PNames[i] is f'P{i}'
PNames ==
    <<"P1", "P2", "P3", "P4", "P5", "P6", "P7", "P8", "P9", "P10", "P11",
      "P12", "P13", "P14", "P15", "P16", "P17">>
PS_P_DESCRIPTIONS == {PNames[i] : i \in 1..17}
\* int(p_name[1:]) - 1 for a key of P_DESCRIPTIONS
PIndex(p_name) == (CHOOSE i \in 1..17 : PNames[i] = p_name) - 1

PR_DEFAULT_AUX_VALUES ==
    ("P13" :> 0 @@ "P14" :> 3 @@ "P15" :> 1 @@ "P16" :> 0 @@ "P17" :> 1)

PS_BEAM_PRESETS ==
    ("narrow"     :> <<31, 31, 31, 30, 26, 21, 16, 16, 13, 0, 0, 0, 0, 3, 1, 0, 1>> @@
     "medium"     :> <<24, 24, 23, 21, 18, 13, 10, 10, 6, 0, 0, 0, 0, 3, 1, 0, 1>> @@
     "wide"       :> <<15, 15, 15, 15, 10, 10, 5, 5, 0, 0, 0, 0, 0, 3, 1, 0, 1>> @@
     "ultra_wide" :> <<10, 10, 7, 7, 6, 3, 2, 0, 0, 0, 0, 0, 0, 3, 1, 0, 1>> @@
     "default"    :> <<19, 19, 19, 31, 31, 31, 31, 31, 31, 31, 31, 31, 0, 3, 1, 0, 1>>)

(***************************************************************************)
(* Frame codec                                                             *)
(***************************************************************************)
\* variant, not the program's: the checksum is the byte sum
RECURSIVE calculate_bcc_sum(_)
calculate_bcc_sum(data) ==
    IF data = <<>> THEN 0
    ELSE (calculate_bcc_sum(SubSeq(data, 1, Len(data) - 1))
          + data[Len(data)]) % 256

RECURSIVE calculate_bcc(_)
calculate_bcc(data) ==
    IF data = <<>> THEN 0
    ELSE Xor(calculate_bcc(SubSeq(data, 1, Len(data) - 1)), data[Len(data)])

\* bytes([ADDR_CODE, CMD_CODE, param, ADDR_CODE ^ CMD_CODE ^ param])
QueryFrame(param) ==
    <<ADDR_CODE, CMD_CODE, param, Xor(Xor(ADDR_CODE, CMD_CODE), param)>>

ER_create_query_command(probe_num) == QueryFrame(ER_PROBE_PARAMS[probe_num])
PR_create_query_command(probe_num) == QueryFrame(PR_PROBE_PARAMS[probe_num])
ES_query_command(probe_num) == QueryFrame(ES_PROBE_QUERY_PARAMS[probe_num])
PS_query_command(probe_num) == QueryFrame(PS_PROBE_QUERY_PARAMS[probe_num])

(***************************************************************************)
(* Response classifier of the readers                                      *)
(***************************************************************************)
\* variant, not the program's: the echoed parameter code is not compared
ER_validate_response_any_probe(response, expected_probe_num) ==
    IF Len(response) # ER_EXPECTED_RESPONSE_LENGTH THEN FALSE
    ELSE IF At(response, 0) # ADDR_CODE \/ At(response, 1) # CMD_CODE THEN FALSE
    ELSE IF response[Len(response)] #
            calculate_bcc(SubSeq(response, 1, Len(response) - 1)) THEN FALSE
    ELSE TRUE

ER_validate_response(response, expected_probe_num) ==
    IF Len(response) # ER_EXPECTED_RESPONSE_LENGTH THEN FALSE
    ELSE IF At(response, 0) # ADDR_CODE \/ At(response, 1) # CMD_CODE THEN FALSE
    ELSE IF At(response, 2) # ER_PROBE_PARAMS[expected_probe_num] THEN FALSE
    ELSE IF response[Len(response)] #
            calculate_bcc(SubSeq(response, 1, Len(response) - 1)) THEN FALSE
    ELSE TRUE

\* variant, not the program's: the checksum is folded over the whole response
PR_validate_response_whole_bcc(response, expected_probe_num) ==
    IF Len(response) # PR_EXPECTED_RESPONSE_LENGTH THEN FALSE
    ELSE IF At(response, 0) # ADDR_CODE \/ At(response, 1) # CMD_CODE THEN FALSE
    ELSE IF At(response, 2) # PR_PROBE_PARAMS[expected_probe_num] THEN FALSE
    ELSE IF response[Len(response)] # calculate_bcc(response) THEN FALSE
    ELSE TRUE

PR_validate_response(response, expected_probe_num) ==
    IF Len(response) # PR_EXPECTED_RESPONSE_LENGTH THEN FALSE
    ELSE IF At(response, 0) # ADDR_CODE \/ At(response, 1) # CMD_CODE THEN FALSE
    ELSE IF At(response, 2) # PR_PROBE_PARAMS[expected_probe_num] THEN FALSE
    ELSE IF response[Len(response)] #
            calculate_bcc(SubSeq(response, 1, Len(response) - 1)) THEN FALSE
    ELSE TRUE

\* What query_probe makes of the bytes it read: the profile is returned from
\* a response validate_response accepts, the others get one of three warnings
ER_read_outcome(response, probe_num) ==
    IF Len(response) = ER_EXPECTED_RESPONSE_LENGTH
    THEN IF ER_validate_response(response, probe_num) THEN "valid"
         ELSE "invalid response format"
    ELSE IF Len(response) > 0 THEN "incomplete response"
    ELSE "no response"

PR_read_outcome(response, probe_num) ==
    IF Len(response) = PR_EXPECTED_RESPONSE_LENGTH
    THEN IF PR_validate_response(response, probe_num) THEN "valid"
         ELSE "invalid response format"
    ELSE IF Len(response) > 0 THEN "incomplete response"
    ELSE "no response"

\* ' '.join(f'{b:02X}' for b in response)
HexDump(response) == [i \in 1..Len(response) |-> Hex(response[i])]

\* variant, not the program's: the second and third range change places
ER_parse_response_ranges_swapped(response, probe_num) ==
    [probe_num |-> probe_num,
     probe_id |-> Hex(At(response, 2)),
     range_2_5m |-> [energy |-> At(response, 3), time |-> At(response, 4),
                     threshold |-> At(response, 5)],
     range_1_5m |-> [energy |-> At(response, 9), time |-> At(response, 10),
                     threshold |-> At(response, 11)],
     range_6_5m |-> [energy |-> At(response, 6), time |-> At(response, 7),
                     threshold |-> At(response, 8)],
     fixed_params |-> [param1 |-> Hex(At(response, 12)),
                       param2 |-> Hex(At(response, 13))],
     bcc |-> Hex(At(response, 14)),
     raw_response |-> HexDump(response)]

ER_parse_response(response, probe_num) ==
    [probe_num |-> probe_num,
     probe_id |-> Hex(At(response, 2)),
     range_2_5m |-> [energy |-> At(response, 3), time |-> At(response, 4),
                     threshold |-> At(response, 5)],
     range_1_5m |-> [energy |-> At(response, 6), time |-> At(response, 7),
                     threshold |-> At(response, 8)],
     range_6_5m |-> [energy |-> At(response, 9), time |-> At(response, 10),
                     threshold |-> At(response, 11)],
     fixed_params |-> [param1 |-> Hex(At(response, 12)),
                       param2 |-> Hex(At(response, 13))],
     bcc |-> Hex(At(response, 14)),
     raw_response |-> HexDump(response)]

PR_parse_response(response, probe_num) ==
    LET p_values == SubSeq(response, 4, 20)
    IN  [probe_num |-> probe_num,
         probe_id |-> Hex(At(response, 2)),
         main_phase_params |->
             [p_name \in {PNames[i] : i \in 1..12} |->
                 [value |-> At(p_values, PIndex(p_name)),
                  hex |-> Hex(At(p_values, PIndex(p_name)))]],
         auxiliary_params |->
             [p_name \in {PNames[i] : i \in 13..17} |->
                 [value |-> At(p_values, PIndex(p_name)),
                  hex |-> Hex(At(p_values, PIndex(p_name))),
                  default |-> Hex(PR_DEFAULT_AUX_VALUES[p_name]),
                  is_default |-> At(p_values, PIndex(p_name)) =
                                     PR_DEFAULT_AUX_VALUES[p_name]]],
         bcc |-> Hex(At(response, 20)),
         raw_response |-> HexDump(response)]

(***************************************************************************)
(* Helpers of the setters                                                  *)
(***************************************************************************)
\* the nine values of an energy profile, in frame order
EnergyKeys ==
    <<"energy1", "time1", "threshold1", "energy2", "time2", "threshold2",
      "energy3", "time3", "threshold3">>

\* read_probe_params: the dictionary built from a 15-byte response
ES_params_of_response(response) ==
    [energy1 |-> At(response, 3), time1 |-> At(response, 4),
     threshold1 |-> At(response, 5),
     energy2 |-> At(response, 6), time2 |-> At(response, 7),
     threshold2 |-> At(response, 8),
     energy3 |-> At(response, 9), time3 |-> At(response, 10),
     threshold3 |-> At(response, 11)]

\* read_probe_params: is the response read turned into a dictionary
ES_read_accepts(response) ==
    /\ Len(response) = 15
    /\ At(response, 0) = ADDR_CODE /\ At(response, 1) = CMD_CODE

\* read_probe_p_values: is the response read turned into a list
PS_read_accepts(response) ==
    /\ Len(response) = 21
    /\ At(response, 0) = ADDR_CODE /\ At(response, 1) = CMD_CODE
    /\ At(response, 20) = calculate_bcc(SubSeq(response, 1, Len(response) - 1))

\* list(response[3:20])
PS_values_of_response(response) == SubSeq(response, 4, 20)

\* variant, not the program's: thresholds checked against the energy range
ES_params_in_range_wide(p) ==
    \A k \in DOMAIN p : 0 <= p[k] /\ p[k] <= 7

\* set_probe_params: the three range checks on the nine arguments
ES_params_in_range(p) ==
    /\ (0 <= p.energy1 /\ p.energy1 <= 7 /\ 0 <= p.energy2 /\ p.energy2 <= 7
        /\ 0 <= p.energy3 /\ p.energy3 <= 7)
    /\ (0 <= p.time1 /\ p.time1 <= 7 /\ 0 <= p.time2 /\ p.time2 <= 7
        /\ 0 <= p.time3 /\ p.time3 <= 7)
    /\ (0 <= p.threshold1 /\ p.threshold1 <= 3 /\ 0 <= p.threshold2
        /\ p.threshold2 <= 3 /\ 0 <= p.threshold3 /\ p.threshold3 <= 3)

\* variant, not the program's: only the length of the list is checked
PS_values_accepted_length_only(p_values) == Len(p_values) = 17

\* set_probe_p_values: the length check and the range check of every element
PS_values_accepted(p_values) ==
    /\ Len(p_values) = 17
    /\ \A i \in 1..Len(p_values) : 0 <= p_values[i] /\ p_values[i] <= 31

\* variant, not the program's: time and threshold of the first range swapped
ES_write_frame_threshold_first(probe_num, p, permanent) ==
    LET probe_params == IF permanent THEN ES_PROBE_PERM_PARAMS
                        ELSE ES_PROBE_TEMP_PARAMS
        param1 == probe_params[probe_num]
        command == <<ADDR_CODE, CMD_CODE, param1,
                     p.energy1, p.threshold1, p.time1,
                     p.energy2, p.time2, p.threshold2,
                     p.energy3, p.time3, p.threshold3,
                     ES_FIXED_PARAMS[1], ES_FIXED_PARAMS[2]>>
    IN  command \o <<calculate_bcc(command)>>

\* set_probe_params: command + bytes([bcc])
ES_write_frame(probe_num, p, permanent) ==
    LET probe_params == IF permanent THEN ES_PROBE_PERM_PARAMS
                        ELSE ES_PROBE_TEMP_PARAMS
        param1 == probe_params[probe_num]
        command == <<ADDR_CODE, CMD_CODE, param1,
                     p.energy1, p.time1, p.threshold1,
                     p.energy2, p.time2, p.threshold2,
                     p.energy3, p.time3, p.threshold3,
                     ES_FIXED_PARAMS[1], ES_FIXED_PARAMS[2]>>
    IN  command \o <<calculate_bcc(command)>>

\* variant, not the program's: a pad byte goes before the checksum
PS_write_frame_padded(probe_num, p_values, permanent) ==
    LET probe_params == IF permanent THEN PS_PROBE_PERM_PARAMS
                        ELSE PS_PROBE_TEMP_PARAMS
        param1 == probe_params[probe_num]
        command == <<ADDR_CODE, CMD_CODE, param1>> \o p_values \o <<0>>
    IN  command \o <<calculate_bcc(command)>>

\* set_probe_p_values: command + bytes([bcc])
PS_write_frame(probe_num, p_values, permanent) ==
    LET probe_params == IF permanent THEN PS_PROBE_PERM_PARAMS
                        ELSE PS_PROBE_TEMP_PARAMS
        param1 == probe_params[probe_num]
        command == <<ADDR_CODE, CMD_CODE, param1>> \o p_values
    IN  command \o <<calculate_bcc(command)>>

\* The write loop's reading of the acknowledgement: "True" and "False" are
\* returned at once, "retry" falls through to the end of the loop body.
\* variant, not the program's: a parameter error is sent again
ES_ack_outcome_resend(response) ==
    IF Len(response) >= 5 /\ At(response, 0) = ADDR_CODE
       /\ At(response, 1) = CMD_CODE
    THEN IF At(response, 3) = 0 THEN "True"
         ELSE IF At(response, 3) = 255 THEN "False"
         ELSE "retry"
    ELSE "retry"

\* variant, not the program's: a foreign header ends the write
PS_ack_outcome_header_ends(response) ==
    IF Len(response) >= 5
    THEN IF At(response, 0) = ADDR_CODE /\ At(response, 1) = CMD_CODE
         THEN IF At(response, 3) = 0 THEN "True"
              ELSE IF At(response, 3) \in {2, 255} THEN "False"
              ELSE "retry"
         ELSE "False"
    ELSE "retry"

ES_ack_outcome(response) ==
    IF Len(response) >= 5
    THEN IF At(response, 0) = ADDR_CODE /\ At(response, 1) = CMD_CODE
         THEN LET status == At(response, 3)
              IN  IF status = 0 THEN "True"
                  ELSE IF status = 2 THEN "False"
                  ELSE IF status = 255 THEN "False"
                  ELSE "retry"
         ELSE "retry"
    ELSE "retry"

\* variant, not the program's: the acknowledgement's checksum is verified
PS_ack_outcome_checksummed(response) ==
    IF Len(response) >= 5
    THEN IF /\ At(response, 0) = ADDR_CODE /\ At(response, 1) = CMD_CODE
            /\ At(response, 4) = calculate_bcc(SubSeq(response, 1, 4))
         THEN IF At(response, 3) = 0 THEN "True"
              ELSE IF At(response, 3) \in {2, 255} THEN "False"
              ELSE "retry"
         ELSE "retry"
    ELSE "retry"

PS_ack_outcome(response) ==
    IF Len(response) >= 5
    THEN IF At(response, 0) = ADDR_CODE /\ At(response, 1) = CMD_CODE
         THEN LET status == At(response, 3)
              IN  IF status = 0 THEN "True"
                  ELSE IF status = 2 THEN "False"
                  ELSE IF status = 255 THEN "False"
                  ELSE "retry"
         ELSE "retry"
    ELSE "retry"

(***************************************************************************)
(* State                                                                   *)
(***************************************************************************)
VARIABLES
    pc,        \* "idle", "query", "read", "write", "base", "verify", "done"
    op,        \* the top-level call in progress and its arguments
    attempt,   \* the loop variable of the retry loop in progress
    frame,     \* command / full_command of the retry loop in progress
    current,   \* profile read by the base read of a partial update
    submitted, \* profile handed to the write engine
    returned,  \* "pending", "value", "None", "True", "False", "raise"
    value,     \* what was returned when returned = "value"
    log,       \* the calls made on serial_port and time.sleep, in order
    probe,     \* the loop variable probe_num of read_all_probes
    results    \* the list results of read_all_probes

vars == <<pc, op, attempt, frame, current, submitted, returned, value, log,
         probe, results>>

\* Optional[int]: None is <<>>, v is <<v>>
None == <<>>
Some(v) == <<v>>

NoOp ==
    [cls |-> "none", name |-> "none", probe_num |-> 0, max_retries |-> 0,
     permanent |-> FALSE, verify |-> FALSE, params |-> <<>>,
     range_m |-> 0, energy |-> 0, time_val |-> None, threshold |-> None,
     p_updates |-> <<>>, preset_name |-> ""]

Init ==
    /\ pc = "idle"
    /\ op = NoOp
    /\ attempt = 0
    /\ frame = <<>>
    /\ current = <<>>
    /\ submitted = <<>>
    /\ returned = "pending"
    /\ value = <<>>
    /\ log = <<>>
    /\ probe = 0
    /\ results = <<>>

(***************************************************************************)
(* The serial port.  One exchange is reset_input_buffer, write, flush,     *)
(* sleep, read.  A behaviour says what the port does in one exchange; the  *)
(* fields after the first call that raises are not looked at.  Its field   *)
(* response holds the bytes the device puts on the line in answer; they    *)
(* are recorded with the sleep during which they arrive, and read(n)       *)
(* returns at most the first n of them.                                    *)
(***************************************************************************)
Ev(ev, ph, att, data, n, raised) ==
    [ev |-> ev, ph |-> ph, att |-> att, data |-> data, n |-> n,
     raised |-> raised]

Behaviour(clear_raises, bytes_sent, flush_raises, read_raises, response) ==
    [clear_raises |-> clear_raises, bytes_sent |-> bytes_sent,
     flush_raises |-> flush_raises, read_raises |-> read_raises,
     response |-> response]

\* behaviours in which some call raises or the write is short
Faults ==
    {Behaviour(TRUE, "full", FALSE, FALSE, <<>>),
     Behaviour(FALSE, "raise", FALSE, FALSE, <<>>),
     Behaviour(FALSE, "short", FALSE, FALSE, <<>>),
     Behaviour(FALSE, "short", TRUE, FALSE, <<>>),
     Behaviour(FALSE, "full", TRUE, FALSE, <<>>),
     Behaviour(FALSE, "full", FALSE, TRUE, <<>>)}

\* behaviours in which every call returns and the device answers r
Delivers(R) == {Behaviour(FALSE, "full", FALSE, FALSE, r) : r \in R}

\* bytes_sent of serial_port.write(cmd)
BytesSent(cmd, b) == IF b.bytes_sent = "short" THEN Len(cmd) - 1 ELSE Len(cmd)

\* serial_port.read(n) with the bytes buf waiting at the port
PortRead(buf, n) == SubSeq(buf, 1, IF Len(buf) < n THEN Len(buf) ELSE n)

\* variant, not the program's: the input buffer is cleared after the write
Exchange_write_first(ph, att, cmd, checks_sent, delay, n, b) ==
    LET s1 == <<Ev("write", ph, att, cmd, BytesSent(cmd, b),
                   b.bytes_sent = "raise")>>
        s2 == s1 \o <<Ev("clear", ph, att, <<>>, 0, b.clear_raises)>>
        s3 == s2 \o <<Ev("flush", ph, att, <<>>, 0, b.flush_raises)>>
        s4 == s3 \o <<Ev("sleep", ph, att, b.response, delay, FALSE)>>
        s5 == s4 \o <<Ev("read", ph, att,
                         IF b.read_raises THEN <<>>
                         ELSE PortRead(b.response, n), n,
                         b.read_raises)>>
        end(events, stage) ==
            [events |-> events, stage |-> stage,
             response |-> IF stage = "read" THEN PortRead(b.response, n)
                          ELSE <<>>]
    IN  IF b.bytes_sent = "raise" THEN end(s1, "raised")
        ELSE IF b.clear_raises THEN end(s2, "raised")
        ELSE IF b.flush_raises THEN end(s3, "raised")
        ELSE IF checks_sent /\ BytesSent(cmd, b) # Len(cmd)
             THEN end(s3, "short")
        ELSE IF b.read_raises THEN end(s5, "raised")
        ELSE end(s5, "read")

\* variant, not the program's: bytes_sent is not compared with len(command)
Exchange_unchecked_write(ph, att, cmd, checks_sent, delay, n, b) ==
    LET s1 == <<Ev("clear", ph, att, <<>>, 0, b.clear_raises)>>
        s2 == s1 \o <<Ev("write", ph, att, cmd, BytesSent(cmd, b),
                         b.bytes_sent = "raise")>>
        s3 == s2 \o <<Ev("flush", ph, att, <<>>, 0, b.flush_raises)>>
        s4 == s3 \o <<Ev("sleep", ph, att, b.response, delay, FALSE)>>
        s5 == s4 \o <<Ev("read", ph, att,
                         IF b.read_raises THEN <<>>
                         ELSE PortRead(b.response, n), n,
                         b.read_raises)>>
        end(events, stage) ==
            [events |-> events, stage |-> stage,
             response |-> IF stage = "read" THEN PortRead(b.response, n)
                          ELSE <<>>]
    IN  IF b.clear_raises THEN end(s1, "raised")
        ELSE IF b.bytes_sent = "raise" THEN end(s2, "raised")
        ELSE IF b.flush_raises THEN end(s3, "raised")
        ELSE IF b.read_raises THEN end(s5, "raised")
        ELSE end(s5, "read")

\* variant, not the program's: the frame written carries the attempt index
Exchange_stamped(ph, att, cmd, checks_sent, delay, n, b) ==
    LET sent == [cmd EXCEPT ![3] = (cmd[3] + att) % 256]
        s1 == <<Ev("clear", ph, att, <<>>, 0, b.clear_raises)>>
        s2 == s1 \o <<Ev("write", ph, att, sent, BytesSent(cmd, b),
                         b.bytes_sent = "raise")>>
        s3 == s2 \o <<Ev("flush", ph, att, <<>>, 0, b.flush_raises)>>
        s4 == s3 \o <<Ev("sleep", ph, att, b.response, delay, FALSE)>>
        s5 == s4 \o <<Ev("read", ph, att,
                         IF b.read_raises THEN <<>>
                         ELSE PortRead(b.response, n), n,
                         b.read_raises)>>
        end(events, stage) ==
            [events |-> events, stage |-> stage,
             response |-> IF stage = "read" THEN PortRead(b.response, n)
                          ELSE <<>>]
    IN  IF b.clear_raises THEN end(s1, "raised")
        ELSE IF b.bytes_sent = "raise" THEN end(s2, "raised")
        ELSE IF b.flush_raises THEN end(s3, "raised")
        ELSE IF checks_sent /\ BytesSent(cmd, b) # Len(cmd)
             THEN end(s3, "short")
        ELSE IF b.read_raises THEN end(s5, "raised")
        ELSE end(s5, "read")

\* The calls of one exchange up to the first that raises.  checks_sent says
\* whether the caller compares bytes_sent with len(command) and leaves the
\* loop body when they differ.  stage is where the exchange ended:
\* "raised", "short" (left after flush) or "read" (response holds the bytes
\* read returned).
Exchange(ph, att, cmd, checks_sent, delay, n, b) ==
    LET s1 == <<Ev("clear", ph, att, <<>>, 0, b.clear_raises)>>
        s2 == s1 \o <<Ev("write", ph, att, cmd, BytesSent(cmd, b),
                         b.bytes_sent = "raise")>>
        s3 == s2 \o <<Ev("flush", ph, att, <<>>, 0, b.flush_raises)>>
        s4 == s3 \o <<Ev("sleep", ph, att, b.response, delay, FALSE)>>
        s5 == s4 \o <<Ev("read", ph, att,
                         IF b.read_raises THEN <<>>
                         ELSE PortRead(b.response, n), n,
                         b.read_raises)>>
        end(events, stage) ==
            [events |-> events, stage |-> stage,
             response |-> IF stage = "read" THEN PortRead(b.response, n)
                          ELSE <<>>]
    IN  IF b.clear_raises THEN end(s1, "raised")
        ELSE IF b.bytes_sent = "raise" THEN end(s2, "raised")
        ELSE IF b.flush_raises THEN end(s3, "raised")
        ELSE IF checks_sent /\ BytesSent(cmd, b) # Len(cmd)
             THEN end(s3, "short")
        ELSE IF b.read_raises THEN end(s5, "raised")
        ELSE end(s5, "read")

Sleep(ph, att, ms) == <<Ev("sleep", ph, att, <<>>, ms, FALSE)>>

(***************************************************************************)
(* Responses the port may deliver to a query, built around well-formed     *)
(* ones: cut short, with another address byte, with the code of another    *)
(* probe (checksum recomputed), with a payload bit flipped (checksum       *)
(* kept), and, for the readers and the acknowledgements, followed by one   *)
(* more byte.                                                              *)
(***************************************************************************)
WithBcc(body) == body \o <<calculate_bcc(body)>>
SetByte(r, i, v) == [r EXCEPT ![i + 1] = v]

EnergyResponse(param, profile) ==
    WithBcc(<<ADDR_CODE, CMD_CODE, param>> \o profile \o <<44, 64>>)
PValueResponse(param, p_values) ==
    WithBcc(<<ADDR_CODE, CMD_CODE, param>> \o p_values)

Damaged(r, other_param) ==
    {<<>>,
     SubSeq(r, 1, Len(r) - 1),
     SetByte(r, 0, 233),
     WithBcc(SetByte(SubSeq(r, 1, Len(r) - 1), 2, other_param)),
     SetByte(r, 3, Xor(At(r, 3), 1))}

\* profiles the probes may hold
EnergyProfileA == <<2, 2, 2, 1, 0, 2, 5, 6, 2>>
EnergyProfileB == <<3, 2, 2, 1, 0, 2, 5, 6, 2>>

ER_Responses(probe_num) ==
    LET param == ER_PROBE_PARAMS[probe_num]
    IN  {EnergyResponse(param, EnergyProfileA),
         EnergyResponse(param, EnergyProfileB)}
        \cup Damaged(EnergyResponse(param, EnergyProfileA), 208)
        \cup {EnergyResponse(param, EnergyProfileA) \o <<0>>}

PR_Responses(probe_num) ==
    LET param == PR_PROBE_PARAMS[probe_num]
    IN  {PValueResponse(param, PS_BEAM_PRESETS["narrow"]),
         PValueResponse(param, PS_BEAM_PRESETS["default"])}
        \cup Damaged(PValueResponse(param, PS_BEAM_PRESETS["narrow"]), 224)
        \cup {PValueResponse(param, PS_BEAM_PRESETS["narrow"]) \o <<0>>}

(***************************************************************************)
(* The arguments the calls are made with                                   *)
(***************************************************************************)
ReaderProbes == {0, 1, 9, 10}

\* query_probe(probe_num, max_retries): every budget for the probes above,
\* and probe 3 with a budget of one
ReaderCalls ==
    {[probe_num |-> p, max_retries |-> n] :
        p \in ReaderProbes, n \in 0..MaxRetries}
    \cup {[probe_num |-> 3, max_retries |-> 1]}

Return(kind, v) ==
    /\ pc' = "done"
    /\ returned' = kind
    /\ value' = v

(***************************************************************************)
(* KS236EnergyReader.query_probe                                           *)
(***************************************************************************)
\* for attempt in range(max_retries)
\* variant, not the program's: range(max_retries + 1)
ER_loop_runs_once_more(att, max_retries) == att <= max_retries

ER_loop_runs(att, max_retries) == att < max_retries

\* variant, not the program's: the step of the P-value reader
ER_pre_read_delay_half_step(attempt_index) == 100 + attempt_index * 50

\* time.sleep(0.1 + attempt * 0.1), in milliseconds
ER_pre_read_delay(attempt_index) == 100 + attempt_index * 100

ER_query_probe_call(probe_num, max_retries) ==
    /\ pc = "idle"
    /\ op' = [NoOp EXCEPT !.cls = "ER", !.name = "query_probe",
                          !.probe_num = probe_num,
                          !.max_retries = max_retries]
    /\ attempt' = 0
    /\ log' = <<>>
    /\ UNCHANGED <<current, submitted>>
    /\ IF probe_num \notin DOMAIN ER_PROBE_PARAMS
       THEN \* create_query_command raises ValueError outside the try
            /\ Return("raise", <<>>)
            /\ frame' = <<>>
       ELSE /\ frame' = ER_create_query_command(probe_num)
            /\ pc' = "query"
            /\ UNCHANGED <<returned, value>>
    /\ UNCHANGED <<probe, results>>

ER_query_probe_attempt ==
    /\ pc = "query" /\ op.cls = "ER"
    /\ ER_loop_runs(attempt, op.max_retries)
    /\ \E b \in Faults \cup Delivers(ER_Responses(op.probe_num)) :
       LET x == Exchange("query", attempt, frame, TRUE,
                         ER_pre_read_delay(attempt),
                         ER_EXPECTED_RESPONSE_LENGTH, b)
           response == x.response
           accepted == /\ x.stage = "read"
                       /\ ER_read_outcome(response, op.probe_num) = "valid"
       IN  IF accepted
           THEN /\ log' = log \o x.events
                /\ Return("value", ER_parse_response(response, op.probe_num))
                /\ UNCHANGED attempt
           ELSE /\ log' = log \o x.events \o
                          (IF x.stage = "read" /\ attempt < op.max_retries - 1
                           THEN Sleep("query", attempt, 200) ELSE <<>>)
                /\ attempt' = attempt + 1
                /\ UNCHANGED <<pc, returned, value>>
    /\ UNCHANGED <<op, frame, current, submitted>>
    /\ UNCHANGED <<probe, results>>

ER_query_probe_exhausted ==
    /\ pc = "query" /\ op.cls = "ER"
    /\ ~ER_loop_runs(attempt, op.max_retries)
    /\ Return("None", <<>>)
    /\ UNCHANGED <<op, attempt, frame, current, submitted, log>>
    /\ UNCHANGED <<probe, results>>

(***************************************************************************)
(* KS236PValueReader.query_probe                                           *)
(***************************************************************************)
PR_loop_runs(att, max_retries) == att < max_retries

\* time.sleep(0.1 + attempt * 0.05), in milliseconds
PR_pre_read_delay(attempt_index) == 100 + attempt_index * 50

PR_query_probe_call(probe_num, max_retries) ==
    /\ pc = "idle"
    /\ op' = [NoOp EXCEPT !.cls = "PR", !.name = "query_probe",
                          !.probe_num = probe_num,
                          !.max_retries = max_retries]
    /\ attempt' = 0
    /\ log' = <<>>
    /\ UNCHANGED <<current, submitted>>
    /\ IF probe_num \notin DOMAIN PR_PROBE_PARAMS
       THEN /\ Return("raise", <<>>)
            /\ frame' = <<>>
       ELSE /\ frame' = PR_create_query_command(probe_num)
            /\ pc' = "query"
            /\ UNCHANGED <<returned, value>>
    /\ UNCHANGED <<probe, results>>

PR_query_probe_attempt ==
    /\ pc = "query" /\ op.cls = "PR"
    /\ PR_loop_runs(attempt, op.max_retries)
    /\ \E b \in Faults \cup Delivers(PR_Responses(op.probe_num)) :
       LET x == Exchange("query", attempt, frame, TRUE,
                         PR_pre_read_delay(attempt),
                         PR_EXPECTED_RESPONSE_LENGTH, b)
           response == x.response
           accepted == /\ x.stage = "read"
                       /\ PR_read_outcome(response, op.probe_num) = "valid"
       IN  IF accepted
           THEN /\ log' = log \o x.events
                /\ Return("value", PR_parse_response(response, op.probe_num))
                /\ UNCHANGED attempt
           ELSE /\ log' = log \o x.events \o
                          (IF x.stage \in {"read", "raised"}
                              /\ attempt < op.max_retries - 1
                           THEN Sleep("query", attempt, 200) ELSE <<>>)
                /\ attempt' = attempt + 1
                /\ UNCHANGED <<pc, returned, value>>
    /\ UNCHANGED <<op, frame, current, submitted>>
    /\ UNCHANGED <<probe, results>>

PR_query_probe_exhausted ==
    /\ pc = "query" /\ op.cls = "PR"
    /\ ~PR_loop_runs(attempt, op.max_retries)
    /\ Return("None", <<>>)
    /\ UNCHANGED <<op, attempt, frame, current, submitted, log>>
    /\ UNCHANGED <<probe, results>>

(***************************************************************************)
(* Responses and acknowledgements the port may deliver to the setters      *)
(***************************************************************************)
\* a profile with a value outside its range (energy3 = 9)
EnergyProfileOut == <<2, 2, 2, 1, 0, 2, 9, 6, 2>>
\* a P vector with a value outside its range (P17 = 40)
PValuesOut == <<31, 31, 31, 30, 26, 21, 16, 16, 13, 0, 0, 0, 0, 3, 1, 0, 40>>

ES_Responses(probe_num) ==
    LET param == ES_PROBE_QUERY_PARAMS[probe_num]
    IN  {EnergyResponse(param, EnergyProfileA),
         EnergyResponse(param, EnergyProfileB),
         EnergyResponse(param, EnergyProfileOut),
         WithBcc(<<ADDR_CODE, CMD_CODE, param>> \o EnergyProfileB
                 \o <<45, 65>>)}
        \cup Damaged(EnergyResponse(param, EnergyProfileA), 208)

PS_Responses(probe_num) ==
    LET param == PS_PROBE_QUERY_PARAMS[probe_num]
    IN  {PValueResponse(param, PS_BEAM_PRESETS["narrow"]),
         PValueResponse(param, PS_BEAM_PRESETS["default"]),
         PValueResponse(param, PValuesOut)}
        \cup Damaged(PValueResponse(param, PS_BEAM_PRESETS["narrow"]), 224)

\* Acknowledgements to the write frame cmd: the four status values, one
\* with another address byte, one cut short, one followed by one more byte,
\* one with status 0 whose echo and checksum bytes are both 0 (the checksum
\* of such a frame is 0x71), none at all.
Acks(cmd) ==
    LET ack(status) == WithBcc(<<ADDR_CODE, CMD_CODE, At(cmd, 2), status>>)
    IN  {ack(0), ack(2), ack(255), ack(1),
         SetByte(ack(0), 0, 233),
         SetByte(SetByte(ack(0), 2, 0), 4, 0),
         SubSeq(ack(0), 1, 4),
         ack(0) \o <<0>>,
         <<>>}

\* Behaviours of the single exchange of read_probe_params and
\* read_probe_p_values, which do not look at what write returns.
ReadFaults == {b \in Faults : b.bytes_sent # "short"}

(***************************************************************************)
(* KS236EnergySetter.read_probe_params                                     *)
(***************************************************************************)
\* The call as a whole under port behaviour b, made in phase ph of the
\* caller: the port calls made, and the dictionary returned (or None).
\* variant, not the program's: a failed read falls back on a stock profile
ES_read_probe_params_defaulting(ph, probe_num, b) ==
    IF probe_num \notin DOMAIN ES_PROBE_QUERY_PARAMS
    THEN [events |-> <<>>, returned |-> "None", value |-> <<>>]
    ELSE LET x == Exchange(ph, 0, ES_query_command(probe_num), FALSE, 200,
                           15, b)
         IN  [events |-> x.events, returned |-> "value",
              value |-> IF x.stage = "read" /\ ES_read_accepts(x.response)
                        THEN ES_params_of_response(x.response)
                        ELSE ES_params_of_response(
                                 <<0, 0, 0>> \o EnergyProfileA)]

ES_read_probe_params(ph, probe_num, b) ==
    IF probe_num \notin DOMAIN ES_PROBE_QUERY_PARAMS
    THEN [events |-> <<>>, returned |-> "None", value |-> <<>>]
    ELSE LET x == Exchange(ph, 0, ES_query_command(probe_num), FALSE, 200,
                           15, b)
         IN  IF x.stage = "read" /\ ES_read_accepts(x.response)
             THEN [events |-> x.events, returned |-> "value",
                   value |-> ES_params_of_response(x.response)]
             ELSE [events |-> x.events, returned |-> "None", value |-> <<>>]

\* the behaviours that matter to a read of probe_num: none when no call is made
ES_ReadBehaviours(probe_num) ==
    IF probe_num \in DOMAIN ES_PROBE_QUERY_PARAMS
    THEN ReadFaults \cup Delivers(ES_Responses(probe_num))
    ELSE {Behaviour(FALSE, "full", FALSE, FALSE, <<>>)}

ES_read_probe_params_call(probe_num) ==
    /\ pc = "idle"
    /\ op' = [NoOp EXCEPT !.cls = "ES", !.name = "read_probe_params",
                          !.probe_num = probe_num]
    /\ \E b \in ES_ReadBehaviours(probe_num) :
          LET r == ES_read_probe_params("read", probe_num, b)
          IN  /\ log' = r.events
              /\ Return(r.returned, r.value)
    /\ UNCHANGED <<attempt, frame, current, submitted>>
    /\ UNCHANGED <<probe, results>>

(***************************************************************************)
(* KS236PValueSetter.read_probe_p_values                                   *)
(***************************************************************************)
PS_read_probe_p_values(ph, probe_num, b) ==
    IF probe_num \notin DOMAIN PS_PROBE_QUERY_PARAMS
    THEN [events |-> <<>>, returned |-> "None", value |-> <<>>]
    ELSE LET x == Exchange(ph, 0, PS_query_command(probe_num), FALSE, 200,
                           21, b)
         IN  IF x.stage = "read" /\ PS_read_accepts(x.response)
             THEN [events |-> x.events, returned |-> "value",
                   value |-> PS_values_of_response(x.response)]
             ELSE [events |-> x.events, returned |-> "None", value |-> <<>>]

PS_ReadBehaviours(probe_num) ==
    IF probe_num \in DOMAIN PS_PROBE_QUERY_PARAMS
    THEN ReadFaults \cup Delivers(PS_Responses(probe_num))
    ELSE {Behaviour(FALSE, "full", FALSE, FALSE, <<>>)}

PS_read_probe_p_values_call(probe_num) ==
    /\ pc = "idle"
    /\ op' = [NoOp EXCEPT !.cls = "PS", !.name = "read_probe_p_values",
                          !.probe_num = probe_num]
    /\ \E b \in PS_ReadBehaviours(probe_num) :
          LET r == PS_read_probe_p_values("read", probe_num, b)
          IN  /\ log' = r.events
              /\ Return(r.returned, r.value)
    /\ UNCHANGED <<attempt, frame, current, submitted>>
    /\ UNCHANGED <<probe, results>>

(***************************************************************************)
(* KS236EnergySetter.set_probe_params                                      *)
(***************************************************************************)
\* max_retries: int = 3
ES_DEFAULT_MAX_RETRIES == 3

EnergyParams(t) ==
    [energy1 |-> t[1], time1 |-> t[2], threshold1 |-> t[3],
     energy2 |-> t[4], time2 |-> t[5], threshold2 |-> t[6],
     energy3 |-> t[7], time3 |-> t[8], threshold3 |-> t[9]]

\* the returns before the command is built
\* variant, not the program's: the nine-probe domain of the readers
ES_set_probe_params_rejects_nine(probe_num, p) ==
    \/ probe_num \notin 1..9
    \/ ~ES_params_in_range(p)

ES_set_probe_params_rejects(probe_num, p) ==
    \/ probe_num \notin DOMAIN ES_PROBE_TEMP_PARAMS
    \/ ~ES_params_in_range(p)

\* variant, not the program's: range(max_retries + 1)
ES_loop_runs_once_more(att, max_retries) == att <= max_retries

ES_loop_runs(att, max_retries) == att < max_retries

\* variant, not the program's: verification does not depend on success
ES_write_returns_verifies_failures(success) ==
    IF op.name = "set_range_energy" /\ op.verify
    THEN /\ pc' = "verify"
         /\ UNCHANGED <<returned, value>>
    ELSE Return(success, <<>>)

\* set_probe_params returned success to its caller: the top-level call
\* returns it; set_range_energy goes on to verify when asked to.
ES_write_returns(success) ==
    IF op.name = "set_range_energy" /\ success = "True" /\ op.verify
    THEN /\ pc' = "verify"
         /\ UNCHANGED <<returned, value>>
    ELSE Return(success, <<>>)

ES_set_probe_params_call(probe_num, p, permanent, max_retries) ==
    /\ pc = "idle"
    /\ op' = [NoOp EXCEPT !.cls = "ES", !.name = "set_probe_params",
                          !.probe_num = probe_num, !.params = p,
                          !.permanent = permanent,
                          !.max_retries = max_retries]
    /\ attempt' = 0
    /\ log' = <<>>
    /\ UNCHANGED current
    /\ IF ES_set_probe_params_rejects(probe_num, p)
       THEN /\ Return("False", <<>>)
            /\ UNCHANGED <<frame, submitted>>
       ELSE /\ frame' = ES_write_frame(probe_num, p, permanent)
            /\ submitted' = p
            /\ pc' = "write"
            /\ UNCHANGED <<returned, value>>
    /\ UNCHANGED <<probe, results>>

ES_set_probe_params_attempt ==
    /\ pc = "write" /\ op.cls = "ES"
    /\ ES_loop_runs(attempt, op.max_retries)
    /\ \E b \in Faults \cup Delivers(Acks(frame)) :
       LET x == Exchange("write", attempt, frame, TRUE, 500, 5, b)
           outcome == IF x.stage = "read" THEN ES_ack_outcome(x.response)
                      ELSE "retry"
       IN  IF outcome # "retry"
           THEN /\ log' = log \o x.events
                /\ ES_write_returns(outcome)
                /\ UNCHANGED attempt
           ELSE /\ log' = log \o x.events \o
                          (IF x.stage \in {"read", "raised"}
                              /\ attempt < op.max_retries - 1
                           THEN Sleep("write", attempt, 300) ELSE <<>>)
                /\ attempt' = attempt + 1
                /\ UNCHANGED <<pc, returned, value>>
    /\ UNCHANGED <<op, frame, current, submitted>>
    /\ UNCHANGED <<probe, results>>

ES_set_probe_params_exhausted ==
    /\ pc = "write" /\ op.cls = "ES"
    /\ ~ES_loop_runs(attempt, op.max_retries)
    /\ ES_write_returns("False")
    /\ UNCHANGED <<op, attempt, frame, current, submitted, log>>
    /\ UNCHANGED <<probe, results>>

(***************************************************************************)
(* KS236PValueSetter.set_probe_p_values                                    *)
(***************************************************************************)
PS_DEFAULT_MAX_RETRIES == 3

PS_set_probe_p_values_rejects(probe_num, p_values) ==
    \/ probe_num \notin DOMAIN PS_PROBE_TEMP_PARAMS
    \/ ~PS_values_accepted(p_values)

\* variant, not the program's: range(max_retries + 1)
PS_loop_runs_once_more(att, max_retries) == att <= max_retries

PS_loop_runs(att, max_retries) == att < max_retries

PS_write_returns(success) ==
    IF op.name \in {"set_individual_p_values", "apply_preset"}
       /\ success = "True" /\ op.verify
    THEN /\ pc' = "verify"
         /\ UNCHANGED <<returned, value>>
    ELSE Return(success, <<>>)

PS_set_probe_p_values_call(probe_num, p_values, permanent, max_retries) ==
    /\ pc = "idle"
    /\ op' = [NoOp EXCEPT !.cls = "PS", !.name = "set_probe_p_values",
                          !.probe_num = probe_num, !.params = p_values,
                          !.permanent = permanent,
                          !.max_retries = max_retries]
    /\ attempt' = 0
    /\ log' = <<>>
    /\ UNCHANGED current
    /\ IF PS_set_probe_p_values_rejects(probe_num, p_values)
       THEN /\ Return("False", <<>>)
            /\ UNCHANGED <<frame, submitted>>
       ELSE /\ frame' = PS_write_frame(probe_num, p_values, permanent)
            /\ submitted' = p_values
            /\ pc' = "write"
            /\ UNCHANGED <<returned, value>>
    /\ UNCHANGED <<probe, results>>

PS_set_probe_p_values_attempt ==
    /\ pc = "write" /\ op.cls = "PS"
    /\ PS_loop_runs(attempt, op.max_retries)
    /\ \E b \in Faults \cup Delivers(Acks(frame)) :
       LET x == Exchange("write", attempt, frame, TRUE, 500, 5, b)
           outcome == IF x.stage = "read" THEN PS_ack_outcome(x.response)
                      ELSE "retry"
       IN  IF outcome # "retry"
           THEN /\ log' = log \o x.events
                /\ PS_write_returns(outcome)
                /\ UNCHANGED attempt
           ELSE /\ log' = log \o x.events \o
                          (IF x.stage \in {"read", "raised"}
                              /\ attempt < op.max_retries - 1
                           THEN Sleep("write", attempt, 300) ELSE <<>>)
                /\ attempt' = attempt + 1
                /\ UNCHANGED <<pc, returned, value>>
    /\ UNCHANGED <<op, frame, current, submitted>>
    /\ UNCHANGED <<probe, results>>

PS_set_probe_p_values_exhausted ==
    /\ pc = "write" /\ op.cls = "PS"
    /\ ~PS_loop_runs(attempt, op.max_retries)
    /\ PS_write_returns("False")
    /\ UNCHANGED <<op, attempt, frame, current, submitted, log>>
    /\ UNCHANGED <<probe, results>>

\* arguments of the write engines
SetCall(probe_num, params, permanent) ==
    [probe_num |-> probe_num, params |-> params, permanent |-> permanent]

ES_SetCalls ==
    {SetCall(1, EnergyParams(EnergyProfileA), FALSE),
     SetCall(12, EnergyParams(EnergyProfileB), TRUE),
     SetCall(0, EnergyParams(EnergyProfileA), FALSE),
     SetCall(13, EnergyParams(EnergyProfileA), TRUE),
     SetCall(1, EnergyParams(<<8, 2, 2, 1, 0, 2, 5, 6, 2>>), FALSE),
     SetCall(1, EnergyParams(<<2, 2, 2, 1, 8, 2, 5, 6, 2>>), TRUE),
     SetCall(1, EnergyParams(<<2, 2, 2, 1, 0, 2, 5, 6, 4>>), FALSE),
     SetCall(1, EnergyParams(<<2, 2, 2, 0 - 1, 0, 2, 5, 6, 2>>), FALSE)}

PS_SetCalls ==
    {SetCall(1, PS_BEAM_PRESETS["narrow"], FALSE),
     SetCall(9, PS_BEAM_PRESETS["default"], TRUE),
     SetCall(0, PS_BEAM_PRESETS["narrow"], FALSE),
     SetCall(10, PS_BEAM_PRESETS["narrow"], TRUE),
     SetCall(1, [PS_BEAM_PRESETS["narrow"] EXCEPT ![1] = 32], FALSE),
     SetCall(1, [PS_BEAM_PRESETS["narrow"] EXCEPT ![17] = 0 - 1], TRUE),
     SetCall(1, SubSeq(PS_BEAM_PRESETS["narrow"], 1, 16), FALSE),
     SetCall(1, PS_BEAM_PRESETS["narrow"] \o <<0>>, FALSE)}

ES_Probes == {0, 1, 12, 13}
PS_Probes == {0, 1, 9, 10}

(***************************************************************************)
(* KS236EnergySetter.set_range_energy                                      *)
(***************************************************************************)
\* variant, not the program's: a time or threshold left out is written as 0
ES_overlay_zeroing(cur, range_m, energy, time_val, threshold) ==
    LET t == IF time_val # None THEN time_val[1] ELSE 0
        h == IF threshold # None THEN threshold[1] ELSE 0
    IN  IF range_m = 25
        THEN [cur EXCEPT !.energy1 = energy, !.time1 = t, !.threshold1 = h]
        ELSE IF range_m = 15
        THEN [cur EXCEPT !.energy2 = energy, !.time2 = t, !.threshold2 = h]
        ELSE IF range_m = 65
        THEN [cur EXCEPT !.energy3 = energy, !.time3 = t, !.threshold3 = h]
        ELSE cur

\* new_params: current with the fields of the selected range replaced
ES_overlay(cur, range_m, energy, time_val, threshold) ==
    IF range_m = 25
    THEN [cur EXCEPT !.energy1 = energy,
                     !.time1 = IF time_val # None THEN time_val[1] ELSE @,
                     !.threshold1 = IF threshold # None THEN threshold[1]
                                    ELSE @]
    ELSE IF range_m = 15
    THEN [cur EXCEPT !.energy2 = energy,
                     !.time2 = IF time_val # None THEN time_val[1] ELSE @,
                     !.threshold2 = IF threshold # None THEN threshold[1]
                                    ELSE @]
    ELSE IF range_m = 65
    THEN [cur EXCEPT !.energy3 = energy,
                     !.time3 = IF time_val # None THEN time_val[1] ELSE @,
                     !.threshold3 = IF threshold # None THEN threshold[1]
                                    ELSE @]
    ELSE cur

\* the check of the re-read profile against the requested energy
ES_verify_accepts(updated, range_m, energy) ==
    \/ range_m = 25 /\ updated.energy1 = energy
    \/ range_m = 15 /\ updated.energy2 = energy
    \/ range_m = 65 /\ updated.energy3 = energy

ES_set_range_energy_call(c) ==
    /\ pc = "idle"
    /\ op' = [NoOp EXCEPT !.cls = "ES", !.name = "set_range_energy",
                          !.probe_num = c.probe_num, !.range_m = c.range_m,
                          !.energy = c.energy, !.time_val = c.time_val,
                          !.threshold = c.threshold,
                          !.permanent = c.permanent, !.verify = c.verify,
                          !.max_retries = ES_DEFAULT_MAX_RETRIES]
    /\ attempt' = 0
    /\ log' = <<>>
    /\ UNCHANGED <<frame, current, submitted>>
    /\ IF c.range_m \notin ES_RANGE_NAMES
       THEN Return("False", <<>>)
       ELSE /\ pc' = "base"
            /\ UNCHANGED <<returned, value>>
    /\ UNCHANGED <<probe, results>>

\* from "Read current parameters" to the first pass of the write loop
ES_set_range_energy_base ==
    /\ pc = "base" /\ op.name = "set_range_energy"
    /\ \E b \in ES_ReadBehaviours(op.probe_num) :
       LET r == ES_read_probe_params("base", op.probe_num, b)
           new_params == ES_overlay(r.value, op.range_m, op.energy,
                                    op.time_val, op.threshold)
       IN  /\ log' = log \o r.events
           /\ IF r.returned = "None"
              THEN /\ Return("False", <<>>)
                   /\ UNCHANGED <<frame, current, submitted>>
              ELSE /\ current' = r.value
                   /\ submitted' = new_params
                   /\ IF ES_set_probe_params_rejects(op.probe_num, new_params)
                      THEN /\ Return("False", <<>>)
                           /\ UNCHANGED frame
                      ELSE /\ frame' = ES_write_frame(op.probe_num, new_params,
                                                      op.permanent)
                           /\ pc' = "write"
                           /\ UNCHANGED <<returned, value>>
    /\ UNCHANGED <<op, attempt>>
    /\ UNCHANGED <<probe, results>>

\* "if success and verify": the re-read and its comparison
ES_set_range_energy_verify ==
    /\ pc = "verify" /\ op.name = "set_range_energy"
    /\ \E b \in ES_ReadBehaviours(op.probe_num) :
       LET r == ES_read_probe_params("verify", op.probe_num, b)
       IN  /\ log' = log \o Sleep("verify", 0, 500) \o r.events
           /\ IF r.returned = "value"
              THEN IF ES_verify_accepts(r.value, op.range_m, op.energy)
                   THEN Return("True", <<>>)
                   ELSE Return("False", <<>>)
              ELSE Return("True", <<>>)
    /\ UNCHANGED <<op, attempt, frame, current, submitted>>
    /\ UNCHANGED <<probe, results>>

(***************************************************************************)
(* KS236PValueSetter.set_individual_p_values                               *)
(***************************************************************************)
\* variant, not the program's: an entry that is refused is skipped
RECURSIVE PS_apply_updates_skipping(_, _)
PS_apply_updates_skipping(new_values, p_updates) ==
    IF p_updates = <<>> THEN [ok |-> TRUE, values |-> new_values]
    ELSE LET p_name == Head(p_updates).name
             p_value == Head(p_updates).value
         IN  IF p_name \notin PS_P_DESCRIPTIONS \/ ~(0 <= p_value /\ p_value <= 31)
             THEN PS_apply_updates_skipping(new_values, Tail(p_updates))
             ELSE PS_apply_updates_skipping(
                      [new_values EXCEPT ![PIndex(p_name) + 1] = p_value],
                      Tail(p_updates))

\* p_updates is a dictionary: a sequence of [name, value] in insertion
\* order, no name twice.  The loop over it returns False at the first
\* entry it refuses (ok = FALSE), else new_values holds every update.
RECURSIVE PS_apply_updates(_, _)
PS_apply_updates(new_values, p_updates) ==
    IF p_updates = <<>> THEN [ok |-> TRUE, values |-> new_values]
    ELSE LET p_name == Head(p_updates).name
             p_value == Head(p_updates).value
         IN  IF p_name \notin PS_P_DESCRIPTIONS
             THEN [ok |-> FALSE, values |-> new_values]
             ELSE IF ~(0 <= PIndex(p_name) /\ PIndex(p_name) <= 16)
             THEN [ok |-> FALSE, values |-> new_values]
             ELSE IF ~(0 <= p_value /\ p_value <= 31)
             THEN [ok |-> FALSE, values |-> new_values]
             ELSE PS_apply_updates(
                      [new_values EXCEPT ![PIndex(p_name) + 1] = p_value],
                      Tail(p_updates))

\* all_correct after the loop over p_updates
PS_verify_accepts(updated_values, p_updates) ==
    \A i \in 1..Len(p_updates) :
        At(updated_values, PIndex(p_updates[i].name)) = p_updates[i].value

PS_set_individual_p_values_call(c) ==
    /\ pc = "idle"
    /\ op' = [NoOp EXCEPT !.cls = "PS", !.name = "set_individual_p_values",
                          !.probe_num = c.probe_num,
                          !.p_updates = c.p_updates,
                          !.permanent = c.permanent, !.verify = c.verify,
                          !.max_retries = PS_DEFAULT_MAX_RETRIES]
    /\ attempt' = 0
    /\ log' = <<>>
    /\ pc' = "base"
    /\ UNCHANGED <<frame, current, submitted, returned, value>>
    /\ UNCHANGED <<probe, results>>

PS_set_individual_p_values_base ==
    /\ pc = "base" /\ op.name = "set_individual_p_values"
    /\ \E b \in PS_ReadBehaviours(op.probe_num) :
       LET r == PS_read_probe_p_values("base", op.probe_num, b)
           u == PS_apply_updates(r.value, op.p_updates)
       IN  /\ log' = log \o r.events
           /\ IF r.returned = "None"
              THEN /\ Return("False", <<>>)
                   /\ UNCHANGED <<frame, current, submitted>>
              ELSE /\ current' = r.value
                   /\ IF ~u.ok
                      THEN /\ Return("False", <<>>)
                           /\ UNCHANGED <<frame, submitted>>
                      ELSE /\ submitted' = u.values
                           /\ IF PS_set_probe_p_values_rejects(op.probe_num,
                                                               u.values)
                              THEN /\ Return("False", <<>>)
                                   /\ UNCHANGED frame
                              ELSE /\ frame' = PS_write_frame(op.probe_num,
                                                  u.values, op.permanent)
                                   /\ pc' = "write"
                                   /\ UNCHANGED <<returned, value>>
    /\ UNCHANGED <<op, attempt>>
    /\ UNCHANGED <<probe, results>>

PS_set_individual_p_values_verify ==
    /\ pc = "verify" /\ op.name = "set_individual_p_values"
    /\ \E b \in PS_ReadBehaviours(op.probe_num) :
       LET r == PS_read_probe_p_values("verify", op.probe_num, b)
       IN  /\ log' = log \o Sleep("verify", 0, 500) \o r.events
           /\ IF r.returned = "value"
              THEN IF PS_verify_accepts(r.value, op.p_updates)
                   THEN Return("True", <<>>)
                   ELSE Return("False", <<>>)
              ELSE Return("True", <<>>)
    /\ UNCHANGED <<op, attempt, frame, current, submitted>>
    /\ UNCHANGED <<probe, results>>

(***************************************************************************)
(* KS236PValueSetter.apply_preset                                          *)
(***************************************************************************)
PS_apply_preset_call(probe_num, preset_name, permanent, verify) ==
    /\ pc = "idle"
    /\ op' = [NoOp EXCEPT !.cls = "PS", !.name = "apply_preset",
                          !.probe_num = probe_num,
                          !.preset_name = preset_name,
                          !.permanent = permanent, !.verify = verify,
                          !.max_retries = PS_DEFAULT_MAX_RETRIES]
    /\ attempt' = 0
    /\ log' = <<>>
    /\ UNCHANGED current
    /\ IF preset_name \notin DOMAIN PS_BEAM_PRESETS
       THEN /\ Return("False", <<>>)
            /\ UNCHANGED <<frame, submitted>>
       ELSE /\ submitted' = PS_BEAM_PRESETS[preset_name]
            /\ IF PS_set_probe_p_values_rejects(probe_num,
                                                PS_BEAM_PRESETS[preset_name])
               THEN /\ Return("False", <<>>)
                    /\ UNCHANGED frame
               ELSE /\ frame' = PS_write_frame(probe_num,
                                   PS_BEAM_PRESETS[preset_name], permanent)
                    /\ pc' = "write"
                    /\ UNCHANGED <<returned, value>>
    /\ UNCHANGED <<probe, results>>

\* variant, not the program's: the last element is left out of the comparison
PS_preset_applied_but_last(updated_values, preset_name) ==
    SubSeq(updated_values, 1, 16) = SubSeq(PS_BEAM_PRESETS[preset_name], 1, 16)

\* updated_values == preset['values']
PS_preset_applied(updated_values, preset_name) ==
    updated_values = PS_BEAM_PRESETS[preset_name]

\* variant, not the program's: a failed verification read fails the preset
PS_apply_preset_verify_strict ==
    /\ pc = "verify" /\ op.name = "apply_preset"
    /\ \E b \in PS_ReadBehaviours(op.probe_num) :
       LET r == PS_read_probe_p_values("verify", op.probe_num, b)
       IN  /\ log' = log \o Sleep("verify", 0, 500) \o r.events
           /\ IF r.returned = "value" /\ PS_preset_applied(r.value, op.preset_name)
              THEN Return("True", <<>>)
              ELSE Return("False", <<>>)
    /\ UNCHANGED <<op, attempt, frame, current, submitted>>
    /\ UNCHANGED <<probe, results>>

PS_apply_preset_verify ==
    /\ pc = "verify" /\ op.name = "apply_preset"
    /\ \E b \in PS_ReadBehaviours(op.probe_num) :
       LET r == PS_read_probe_p_values("verify", op.probe_num, b)
       IN  /\ log' = log \o Sleep("verify", 0, 500) \o r.events
           /\ IF r.returned = "value"
              THEN IF PS_preset_applied(r.value, op.preset_name)
                   THEN Return("True", <<>>)
                   ELSE Return("False", <<>>)
              ELSE Return("True", <<>>)
    /\ UNCHANGED <<op, attempt, frame, current, submitted>>
    /\ UNCHANGED <<probe, results>>

\* arguments of the profile operations
RangeEnergyCall(probe_num, range_m, energy, time_val, threshold, permanent, verify) ==
    [probe_num |-> probe_num, range_m |-> range_m, energy |-> energy,
     time_val |-> time_val, threshold |-> threshold,
     permanent |-> permanent, verify |-> verify]

ES_RangeEnergyCalls ==
    {RangeEnergyCall(1, 25, 4, None, None, FALSE, TRUE),
     RangeEnergyCall(12, 15, 7, Some(3), Some(1), TRUE, TRUE),
     RangeEnergyCall(1, 65, 0, Some(0), None, FALSE, FALSE),
     RangeEnergyCall(1, 15, 1, None, None, FALSE, TRUE),
     RangeEnergyCall(1, 25, 8, None, None, FALSE, TRUE),
     RangeEnergyCall(1, 15, 4, Some(8), None, FALSE, TRUE),
     RangeEnergyCall(1, 65, 4, None, Some(4), FALSE, TRUE),
     RangeEnergyCall(1, 30, 4, None, None, FALSE, TRUE),
     RangeEnergyCall(0, 25, 4, None, None, FALSE, TRUE),
     RangeEnergyCall(13, 25, 4, None, None, TRUE, TRUE)}

Upd(name, v) == [name |-> name, value |-> v]

IndividualCall(probe_num, p_updates, permanent, verify) ==
    [probe_num |-> probe_num, p_updates |-> p_updates,
     permanent |-> permanent, verify |-> verify]

PS_IndividualCalls ==
    {IndividualCall(1, <<Upd("P1", 15)>>, FALSE, TRUE),
     IndividualCall(9, <<Upd("P1", 15), Upd("P3", 20)>>, TRUE, TRUE),
     IndividualCall(1, <<Upd("P17", 0)>>, FALSE, FALSE),
     IndividualCall(1, <<Upd("P10", 0)>>, FALSE, TRUE),
     IndividualCall(1, <<Upd("P4", 32)>>, FALSE, TRUE),
     IndividualCall(1, <<Upd("P2", 5), Upd("P3", 0 - 1)>>, FALSE, TRUE),
     IndividualCall(1, <<Upd("P2", 5), Upd("P18", 3)>>, FALSE, TRUE),
     IndividualCall(0, <<Upd("P1", 15)>>, FALSE, TRUE),
     IndividualCall(10, <<Upd("P1", 15)>>, TRUE, TRUE)}

PresetCall(probe_num, preset_name, permanent, verify) ==
    [probe_num |-> probe_num, preset_name |-> preset_name,
     permanent |-> permanent, verify |-> verify]

PS_PresetCalls ==
    {PresetCall(1, "narrow", FALSE, TRUE),
     PresetCall(9, "default", TRUE, TRUE),
     PresetCall(1, "wide", FALSE, FALSE),
     PresetCall(1, "spot", FALSE, TRUE),
     PresetCall(0, "narrow", FALSE, TRUE),
     PresetCall(10, "narrow", TRUE, TRUE)}

(***************************************************************************)
(* read_all_probes and main of the two readers.  One step of the sweep is  *)
(* one iteration of "for probe_num in range(1, 10)": the whole call of     *)
(* query_probe(probe_num) with its default budget, under one behaviour of  *)
(* the port per attempt, then the inter-probe sleep.  Of the port traffic  *)
(* of the call the log keeps a summary: the probe asked and the bytes of   *)
(* the last read made for it (answer), and what query_probe returned.      *)
(***************************************************************************)
ER_DEFAULT_MAX_RETRIES == 3
PR_DEFAULT_MAX_RETRIES == 3

\* query_probe(probe_num, max_retries) from attempt att on, the port
\* behaving as bs[att + 1], bs[att + 2], ...
RECURSIVE ER_query_probe_run(_, _, _, _)
ER_query_probe_run(probe_num, max_retries, att, bs) ==
    IF ~ER_loop_runs(att, max_retries)
    THEN [events |-> <<>>, returned |-> "None", value |-> <<>>]
    ELSE LET b == bs[att + 1]
             x == CHOOSE e \in
                      {Exchange("query", att,
                                ER_create_query_command(probe_num), TRUE,
                                ER_pre_read_delay(att),
                                ER_EXPECTED_RESPONSE_LENGTH, b)} : TRUE
             accepted == /\ x.stage = "read"
                         /\ ER_read_outcome(x.response, probe_num) = "valid"
         IN  IF accepted
             THEN [events |-> x.events, returned |-> "value",
                   value |-> ER_parse_response(x.response, probe_num)]
             ELSE LET rest == CHOOSE r \in
                                  {ER_query_probe_run(probe_num, max_retries,
                                                      att + 1, bs)} : TRUE
                  IN
                  [events |-> x.events \o
                              (IF x.stage = "read" /\ att < max_retries - 1
                               THEN Sleep("query", att, 200) ELSE <<>>)
                              \o rest.events,
                   returned |-> rest.returned, value |-> rest.value]

RECURSIVE PR_query_probe_run(_, _, _, _)
PR_query_probe_run(probe_num, max_retries, att, bs) ==
    IF ~PR_loop_runs(att, max_retries)
    THEN [events |-> <<>>, returned |-> "None", value |-> <<>>]
    ELSE LET b == bs[att + 1]
             x == CHOOSE e \in
                      {Exchange("query", att,
                                PR_create_query_command(probe_num), TRUE,
                                PR_pre_read_delay(att),
                                PR_EXPECTED_RESPONSE_LENGTH, b)} : TRUE
             accepted == /\ x.stage = "read"
                         /\ PR_read_outcome(x.response, probe_num) = "valid"
         IN  IF accepted
             THEN [events |-> x.events, returned |-> "value",
                   value |-> PR_parse_response(x.response, probe_num)]
             ELSE LET rest == CHOOSE r \in
                                  {PR_query_probe_run(probe_num, max_retries,
                                                      att + 1, bs)} : TRUE
                  IN
                  [events |-> x.events \o
                              (IF x.stage \in {"read", "raised"}
                                  /\ att < max_retries - 1
                               THEN Sleep("query", att, 200) ELSE <<>>)
                              \o rest.events,
                   returned |-> rest.returned, value |-> rest.value]

\* the bytes of the last read among events, <<>> when there was none
LastRead(events) ==
    LET reads == {i \in 1..Len(events) :
                     events[i].ev = "read" /\ ~events[i].raised}
    IN  IF reads = {} THEN <<>>
        ELSE events[CHOOSE i \in reads : \A j \in reads : j <= i].data

\* the summary of one query_probe call of the sweep
Queried(probe_num, r) ==
    <<Ev("query_probe", "sweep", probe_num, LastRead(r.events), 0,
         r.returned = "raise")>>

\* what the port does in one attempt of a sweep: a well-formed response, no
\* bytes, a response with a payload bit flipped, a call that raises
ER_SweepBehaviours(probe_num) ==
    LET R == EnergyResponse(ER_PROBE_PARAMS[probe_num], EnergyProfileA)
    IN  Delivers({R, <<>>, SetByte(R, 3, Xor(At(R, 3), 1))})
        \cup {Behaviour(TRUE, "full", FALSE, FALSE, <<>>)}

PR_SweepBehaviours(probe_num) ==
    LET R == PValueResponse(PR_PROBE_PARAMS[probe_num],
                            PS_BEAM_PRESETS["narrow"])
    IN  Delivers({R, <<>>, SetByte(R, 3, Xor(At(R, 3), 1))})
        \cup {Behaviour(TRUE, "full", FALSE, FALSE, <<>>)}

\* query_probe(probe_num) as called by read_all_probes, under every
\* sequence of behaviours of the port, with its summary for events
ER_SweepCalls(probe_num) ==
    {LET r == CHOOSE r \in {ER_query_probe_run(probe_num,
                                 ER_DEFAULT_MAX_RETRIES, 0, bs)} : TRUE
     IN  [events |-> Queried(probe_num, r), returned |-> r.returned,
          value |-> r.value] :
        bs \in [1..ER_DEFAULT_MAX_RETRIES -> ER_SweepBehaviours(probe_num)]}

\* the same for each probe number of the sweep, range(1, 10)
ER_SweepOutcomes == [probe_num \in 1..9 |-> ER_SweepCalls(probe_num)]

\* variant, not the program's: range(1, 9)
ER_probes_swept_short == 1..8

\* for probe_num in range(1, 10)
ER_probes_swept == 1..9
PR_probes_swept == 1..9

\* main up to the loop of read_all_probes; connects is the outcome of
\* connect().  Without a connection read_all_probes returns [].
ER_main_call(connects) ==
    /\ pc = "idle"
    /\ op' = [NoOp EXCEPT !.cls = "ER", !.name = "main"]
    /\ log' = <<>>
    /\ results' = <<>>
    /\ IF connects THEN probe' = 1 /\ pc' = "sweep"
       ELSE probe' = 0 /\ pc' = "exit"
    /\ UNCHANGED <<attempt, frame, current, submitted, returned, value>>

\* one iteration of the loop of read_all_probes
ER_read_all_probes_iteration ==
    /\ pc = "sweep" /\ op.cls = "ER"
    /\ probe \in ER_probes_swept
    /\ \E result \in ER_SweepOutcomes[probe] :
           /\ results' = IF result.returned = "value"
                         THEN Append(results, result.value) ELSE results
           /\ log' = log \o result.events \o Sleep("sweep", probe, 100)
    /\ probe' = probe + 1
    /\ UNCHANGED <<pc, op, attempt, frame, current, submitted, returned, value>>

\* the loop is over: disconnect, return results
ER_read_all_probes_return ==
    /\ pc = "sweep" /\ op.cls = "ER"
    /\ probe \notin ER_probes_swept
    /\ pc' = "exit"
    /\ UNCHANGED <<op, attempt, frame, current, submitted, returned, value,
                   log, probe, results>>

\* main after read_all_probes: the exit code
ER_main_exit ==
    /\ pc = "exit" /\ op.cls = "ER"
    /\ IF Len(results) = 9 THEN Return("exit 0", results)
       ELSE IF Len(results) > 0 THEN Return("exit 1", results)
       ELSE Return("exit 2", results)
    /\ UNCHANGED <<op, attempt, frame, current, submitted, log, probe, results>>

\* query_probe(probe_num) as called by read_all_probes, under every
\* sequence of behaviours of the port, with its summary for events
PR_SweepCalls(probe_num) ==
    {LET r == CHOOSE r \in {PR_query_probe_run(probe_num,
                                 PR_DEFAULT_MAX_RETRIES, 0, bs)} : TRUE
     IN  [events |-> Queried(probe_num, r), returned |-> r.returned,
          value |-> r.value] :
        bs \in [1..PR_DEFAULT_MAX_RETRIES -> PR_SweepBehaviours(probe_num)]}

\* the same for each probe number of the sweep, range(1, 10)
PR_SweepOutcomes == [probe_num \in 1..9 |-> PR_SweepCalls(probe_num)]

\* main up to the loop of read_all_probes; without a connection it exits 1
PR_main_call(connects) ==
    /\ pc = "idle"
    /\ op' = [NoOp EXCEPT !.cls = "PR", !.name = "main"]
    /\ log' = <<>>
    /\ results' = <<>>
    /\ IF connects
       THEN probe' = 1 /\ pc' = "sweep" /\ UNCHANGED <<returned, value>>
       ELSE probe' = 0 /\ Return("exit 1", <<>>)
    /\ UNCHANGED <<attempt, frame, current, submitted>>

PR_read_all_probes_iteration ==
    /\ pc = "sweep" /\ op.cls = "PR"
    /\ probe \in PR_probes_swept
    /\ \E result \in PR_SweepOutcomes[probe] :
           /\ results' = IF result.returned = "value"
                         THEN Append(results, result.value) ELSE results
           /\ log' = log \o result.events \o Sleep("sweep", probe, 100)
    /\ probe' = probe + 1
    /\ UNCHANGED <<pc, op, attempt, frame, current, submitted, returned, value>>

PR_read_all_probes_return ==
    /\ pc = "sweep" /\ op.cls = "PR"
    /\ probe \notin PR_probes_swept
    /\ pc' = "exit"
    /\ UNCHANGED <<op, attempt, frame, current, submitted, returned, value,
                   log, probe, results>>

\* print_summary(results) raises when results has one entry: all_identical
\* is read in its last statement and bound only when len(results) > 1.
PR_print_summary_raises(res) == Len(res) = 1

\* main after read_all_probes: print_summary, then the exit code; an
\* exception is caught by main and exits 1
PR_main_exit ==
    /\ pc = "exit" /\ op.cls = "PR"
    /\ IF PR_print_summary_raises(results) THEN Return("exit 1", results)
       ELSE IF results # <<>> THEN Return("exit 0", results)
       ELSE Return("exit 1", results)
    /\ UNCHANGED <<op, attempt, frame, current, submitted, log, probe, results>>

(***************************************************************************)
(* Encoding a profile into a write frame and decoding it with the readers: *)
(* the payload of the frame set_probe_params / set_probe_p_values builds   *)
(* is put in a response with the header, the query code of the probe and   *)
(* its checksum, and handed to validate_response and parse_response.       *)
(***************************************************************************)
\* in-range energy profiles: every corner of the ranges and two with
\* values that differ from field to field
RoundTripEnergyProfiles ==
    {EnergyParams(<<7 * a[1], 7 * a[2], 3 * a[3], 7 * a[4], 7 * a[5],
                    3 * a[6], 7 * a[7], 7 * a[8], 3 * a[9]>>) :
        a \in [1..9 -> {0, 1}]}
    \cup {EnergyParams(EnergyProfileA),
          EnergyParams(<<7, 6, 3, 5, 4, 2, 3, 1, 0>>)}

\* in-range P-value vectors: the presets, the two corners, a ramp, and
\* every vector with one non-zero element
RoundTripPValues ==
    {PS_BEAM_PRESETS[n] : n \in DOMAIN PS_BEAM_PRESETS}
    \cup {[i \in 1..17 |-> 0], [i \in 1..17 |-> 31], [i \in 1..17 |-> i]}
    \cup {[i \in 1..17 |-> IF i = k THEN v ELSE 0] : k \in 1..17, v \in {1, 31}}

ES_round_trip_encode(probe_num, p, permanent) ==
    /\ pc = "idle"
    /\ ~ES_set_probe_params_rejects(probe_num, p)
    /\ op' = [NoOp EXCEPT !.cls = "ES", !.name = "round_trip",
                          !.probe_num = probe_num, !.permanent = permanent,
                          !.params = p]
    /\ frame' = ES_write_frame(probe_num, p, permanent)
    /\ submitted' = p
    /\ pc' = "encoded"
    /\ log' = <<>>
    /\ UNCHANGED <<attempt, current, returned, value>>
    /\ UNCHANGED <<probe, results>>

PS_round_trip_encode(probe_num, p_values, permanent) ==
    /\ pc = "idle"
    /\ ~PS_set_probe_p_values_rejects(probe_num, p_values)
    /\ op' = [NoOp EXCEPT !.cls = "PS", !.name = "round_trip",
                          !.probe_num = probe_num, !.permanent = permanent,
                          !.params = p_values]
    /\ frame' = PS_write_frame(probe_num, p_values, permanent)
    /\ submitted' = p_values
    /\ pc' = "encoded"
    /\ log' = <<>>
    /\ UNCHANGED <<attempt, current, returned, value>>
    /\ UNCHANGED <<probe, results>>

\* the response a probe that holds the payload of f gives to a query
SyntheticResponse(param, f) ==
    WithBcc(<<ADDR_CODE, CMD_CODE, param>> \o SubSeq(f, 4, Len(f) - 1))

ER_round_trip_decode ==
    /\ pc = "encoded" /\ op.cls = "ES"
    /\ op.probe_num \in DOMAIN ER_PROBE_PARAMS
    /\ LET response == SyntheticResponse(ER_PROBE_PARAMS[op.probe_num], frame)
       IN  /\ current' = response
           /\ IF ER_read_outcome(response, op.probe_num) = "valid"
              THEN Return("value", ER_parse_response(response, op.probe_num))
              ELSE Return("None", <<>>)
    /\ UNCHANGED <<op, attempt, frame, submitted, log>>
    /\ UNCHANGED <<probe, results>>

PR_round_trip_decode ==
    /\ pc = "encoded" /\ op.cls = "PS"
    /\ LET response == SyntheticResponse(PR_PROBE_PARAMS[op.probe_num], frame)
       IN  /\ current' = response
           /\ IF PR_read_outcome(response, op.probe_num) = "valid"
              THEN Return("value", PR_parse_response(response, op.probe_num))
              ELSE Return("None", <<>>)
    /\ UNCHANGED <<op, attempt, frame, submitted, log>>
    /\ UNCHANGED <<probe, results>>

(***************************************************************************)
(* The caller takes the result; the object is ready for the next call.     *)
(***************************************************************************)
Finish ==
    /\ pc = "done"
    /\ pc' = "idle"
    /\ op' = NoOp
    /\ attempt' = 0
    /\ frame' = <<>>
    /\ current' = <<>>
    /\ submitted' = <<>>
    /\ returned' = "pending"
    /\ value' = <<>>
    /\ log' = <<>>
    /\ probe' = 0
    /\ results' = <<>>

QueryNext ==
    \/ \E c \in ReaderCalls :
           ER_query_probe_call(c.probe_num, c.max_retries)
    \/ ER_query_probe_attempt
    \/ ER_query_probe_exhausted
    \/ \E c \in ReaderCalls :
           PR_query_probe_call(c.probe_num, c.max_retries)
    \/ PR_query_probe_attempt
    \/ PR_query_probe_exhausted
    \/ Finish

SpecQuery == Init /\ [][QueryNext]_vars

WriteNext ==
    \/ \E c \in ES_SetCalls, n \in 0..MaxRetries :
           ES_set_probe_params_call(c.probe_num, c.params, c.permanent, n)
    \/ ES_set_probe_params_attempt
    \/ ES_set_probe_params_exhausted
    \/ \E c \in PS_SetCalls, n \in 0..MaxRetries :
           PS_set_probe_p_values_call(c.probe_num, c.params, c.permanent, n)
    \/ PS_set_probe_p_values_attempt
    \/ PS_set_probe_p_values_exhausted
    \/ \E p \in ES_Probes : ES_read_probe_params_call(p)
    \/ \E p \in PS_Probes : PS_read_probe_p_values_call(p)
    \/ Finish

SpecWrite == Init /\ [][WriteNext]_vars

ProfileNext ==
    \/ \E c \in ES_RangeEnergyCalls : ES_set_range_energy_call(c)
    \/ ES_set_range_energy_base
    \/ ES_set_probe_params_attempt
    \/ ES_set_probe_params_exhausted
    \/ ES_set_range_energy_verify
    \/ \E c \in PS_IndividualCalls : PS_set_individual_p_values_call(c)
    \/ PS_set_individual_p_values_base
    \/ PS_set_probe_p_values_attempt
    \/ PS_set_probe_p_values_exhausted
    \/ PS_set_individual_p_values_verify
    \/ \E c \in PS_PresetCalls :
           PS_apply_preset_call(c.probe_num, c.preset_name, c.permanent,
                                c.verify)
    \/ PS_apply_preset_verify
    \/ Finish

SpecProfile == Init /\ [][ProfileNext]_vars

\* A profile operation that has been called and has not returned, and the
\* step the program takes next in it: the program runs on without waiting
\* for anything but the port, whose calls return or raise.
ProfileRunning ==
    /\ op.name \in {"set_range_energy", "set_individual_p_values",
                    "apply_preset"}
    /\ pc \in {"base", "write", "verify"}

ProfileProceeds ==
    /\ ProfileRunning
    /\ pc' \in {"write", "verify", "done"}
    /\ attempt' \in {attempt, attempt + 1}

SpecProfileLive ==
    Init /\ [][ProfileNext]_vars /\ WF_<<pc, attempt>>(ProfileProceeds)

SweepNext ==
    \/ \E connects \in BOOLEAN : ER_main_call(connects)
    \/ ER_read_all_probes_iteration
    \/ ER_read_all_probes_return
    \/ ER_main_exit
    \/ \E connects \in BOOLEAN : PR_main_call(connects)
    \/ PR_read_all_probes_iteration
    \/ PR_read_all_probes_return
    \/ PR_main_exit
    \/ Finish

SpecSweep == Init /\ [][SweepNext]_vars

RoundTripNext ==
    \/ \E probe_num \in 1..9, p \in RoundTripEnergyProfiles,
          permanent \in BOOLEAN : ES_round_trip_encode(probe_num, p, permanent)
    \/ ER_round_trip_decode
    \/ \E probe_num \in 1..9, p_values \in RoundTripPValues,
          permanent \in BOOLEAN :
           PS_round_trip_encode(probe_num, p_values, permanent)
    \/ PR_round_trip_decode
    \/ Finish

SpecRoundTrip == Init /\ [][RoundTripNext]_vars

\* Bound of the model: the budgets of the calls of SpecCodec are drawn from
\* 1..CodecRetries.
CodecRetries == 2

\* the calls that build a frame each: the readers' queries, the setters'
\* profile reads and the setters' writes
CodecNext ==
    \/ \E p \in ReaderProbes, n \in 1..CodecRetries : ER_query_probe_call(p, n)
    \/ ER_query_probe_attempt
    \/ ER_query_probe_exhausted
    \/ \E p \in ReaderProbes, n \in 1..CodecRetries : PR_query_probe_call(p, n)
    \/ PR_query_probe_attempt
    \/ PR_query_probe_exhausted
    \/ \E c \in ES_SetCalls, n \in 1..CodecRetries :
           ES_set_probe_params_call(c.probe_num, c.params, c.permanent, n)
    \/ ES_set_probe_params_attempt
    \/ ES_set_probe_params_exhausted
    \/ \E c \in PS_SetCalls, n \in 1..CodecRetries :
           PS_set_probe_p_values_call(c.probe_num, c.params, c.permanent, n)
    \/ PS_set_probe_p_values_attempt
    \/ PS_set_probe_p_values_exhausted
    \/ \E p \in ES_Probes : ES_read_probe_params_call(p)
    \/ \E p \in PS_Probes : PS_read_probe_p_values_call(p)
    \/ Finish

SpecCodec == Init /\ [][CodecNext]_vars

\* every operation of the two setters
SetterNext ==
    \/ \E c \in ES_SetCalls, n \in 0..MaxRetries :
           ES_set_probe_params_call(c.probe_num, c.params, c.permanent, n)
    \/ ES_set_probe_params_attempt
    \/ ES_set_probe_params_exhausted
    \/ \E c \in PS_SetCalls, n \in 0..MaxRetries :
           PS_set_probe_p_values_call(c.probe_num, c.params, c.permanent, n)
    \/ PS_set_probe_p_values_attempt
    \/ PS_set_probe_p_values_exhausted
    \/ \E p \in ES_Probes : ES_read_probe_params_call(p)
    \/ \E p \in PS_Probes : PS_read_probe_p_values_call(p)
    \/ \E c \in ES_RangeEnergyCalls : ES_set_range_energy_call(c)
    \/ ES_set_range_energy_base
    \/ ES_set_range_energy_verify
    \/ \E c \in PS_IndividualCalls : PS_set_individual_p_values_call(c)
    \/ PS_set_individual_p_values_base
    \/ PS_set_individual_p_values_verify
    \/ \E c \in PS_PresetCalls :
           PS_apply_preset_call(c.probe_num, c.preset_name, c.permanent,
                                c.verify)
    \/ PS_apply_preset_verify
    \/ Finish

SpecSetter == Init /\ [][SetterNext]_vars

Next ==
    \/ \E connects \in BOOLEAN : ER_main_call(connects)
    \/ ER_read_all_probes_iteration
    \/ ER_read_all_probes_return
    \/ ER_main_exit
    \/ \E connects \in BOOLEAN : PR_main_call(connects)
    \/ PR_read_all_probes_iteration
    \/ PR_read_all_probes_return
    \/ PR_main_exit
    \/ \E c \in ReaderCalls :
           ER_query_probe_call(c.probe_num, c.max_retries)
    \/ ER_query_probe_attempt
    \/ ER_query_probe_exhausted
    \/ \E c \in ReaderCalls :
           PR_query_probe_call(c.probe_num, c.max_retries)
    \/ PR_query_probe_attempt
    \/ PR_query_probe_exhausted
    \/ \E p \in ES_Probes : ES_read_probe_params_call(p)
    \/ \E p \in PS_Probes : PS_read_probe_p_values_call(p)
    \/ \E c \in ES_SetCalls, n \in 0..MaxRetries :
           ES_set_probe_params_call(c.probe_num, c.params, c.permanent, n)
    \/ ES_set_probe_params_attempt
    \/ ES_set_probe_params_exhausted
    \/ \E c \in PS_SetCalls, n \in 0..MaxRetries :
           PS_set_probe_p_values_call(c.probe_num, c.params, c.permanent, n)
    \/ PS_set_probe_p_values_attempt
    \/ PS_set_probe_p_values_exhausted
    \/ \E c \in ES_RangeEnergyCalls : ES_set_range_energy_call(c)
    \/ ES_set_range_energy_base
    \/ ES_set_range_energy_verify
    \/ \E c \in PS_IndividualCalls : PS_set_individual_p_values_call(c)
    \/ PS_set_individual_p_values_base
    \/ PS_set_individual_p_values_verify
    \/ \E c \in PS_PresetCalls :
           PS_apply_preset_call(c.probe_num, c.preset_name, c.permanent,
                                c.verify)
    \/ PS_apply_preset_verify
    \/ Finish

Spec == Init /\ [][Next]_vars

(***************************************************************************)
(* What the log shows                                                      *)
(***************************************************************************)
Events(ev) == {i \in 1..Len(log) : log[i].ev = ev}
WriteCount == Cardinality(Events("write"))
\* calls made on the port (time.sleep is not one)
TransportCalls == {i \in 1..Len(log) : log[i].ev # "sleep"}
\* write calls that carry a temporary or permanent parameter code
WriteFrames == {i \in Events("write") : Len(log[i].data) > 4}
\* reads of a phase that returned
ReadsIn(ph) == {i \in Events("read") : log[i].ph = ph /\ ~log[i].raised}

InQuery == op.name = "query_probe"
InWriteEngine == op.name \in {"set_probe_params", "set_probe_p_values"}
InPartialUpdate == op.name \in {"set_range_energy", "set_individual_p_values"}

\* the key domain of the tables of a class, and its query code for a probe
ProbeDomain(cls) == IF cls = "ES" THEN 1..12 ELSE 1..9
QueryCode(cls, probe_num) ==
    (IF cls \in {"ER", "ES"} THEN 208 ELSE 224) + probe_num
ResponseLength(cls) == IF cls \in {"ER", "ES"} THEN 15 ELSE 21

\* Valid of the response classifier: length, header, echoed code, checksum
ValidResponse(r) ==
    /\ Len(r) = ResponseLength(op.cls)
    /\ r[1] = 232 /\ r[2] = 153
    /\ r[3] = QueryCode(op.cls, op.probe_num)
    /\ r[Len(r)] = calculate_bcc(SubSeq(r, 1, Len(r) - 1))

(***************************************************************************)
(* C1  Retry exhaustion of query_probe (both readers): with a probe of     *)
(* the table, a budget N >= 1 and a port on which every call returns and   *)
(* every read delivers zero bytes, exactly N query frames are written, the *)
(* call returns None and raises nothing.  While the call runs one frame    *)
(* has been written per attempt made.                                      *)
(***************************************************************************)
EmptyReadsOnly ==
    \A i \in 1..Len(log) :
        /\ ~log[i].raised
        /\ log[i].ev = "read" => log[i].data = <<>>

C1_RetryExhaustion ==
    (InQuery /\ op.probe_num \in ProbeDomain(op.cls) /\ op.max_retries >= 1
     /\ EmptyReadsOnly)
    => /\ \A i \in Events("write") :
              log[i].data = QueryFrame(QueryCode(op.cls, op.probe_num))
       /\ pc = "query" => WriteCount = attempt /\ attempt <= op.max_retries
       /\ pc = "done" => WriteCount = op.max_retries /\ returned = "None"

C1_Witness ==
    /\ InQuery /\ op.cls = "ER" /\ pc = "done" /\ op.max_retries = 3
    /\ EmptyReadsOnly
    /\ Cardinality(Events("read")) = 3
    /\ WriteCount = 3 /\ returned = "None"

(***************************************************************************)
(* C2  As claimed: in query_probe, if attempt k is the first that reads a  *)
(* Valid response, the call returns the parsed profile of that response,   *)
(* exactly k+1 command frames have been written, and nothing is written,   *)
(* read or slept after that read.                                          *)
(***************************************************************************)
ValidReads == {i \in ReadsIn("query") : ValidResponse(log[i].data)}
Parsed(r) ==
    IF op.cls = "ER" THEN ER_parse_response(r, op.probe_num)
    ELSE PR_parse_response(r, op.probe_num)

C2_FirstValidEnds_AsClaimed ==
    InQuery =>
        \A i \in ValidReads :
            /\ i = Len(log)
            /\ pc = "done" /\ returned = "value"
            /\ value = Parsed(log[i].data)
            /\ WriteCount = log[i].att + 1

(***************************************************************************)
(* C2 amended: if attempt k is the first that reads a Valid response, the  *)
(* call returns the parsed profile of that response, k+1 attempts have     *)
(* been started, one command frame has been written in each of them whose  *)
(* input-buffer clear did not raise (so at most k+1, and exactly k+1 when  *)
(* no clear raised), and nothing is written, read or slept after that      *)
(* read.  A profile is returned only in this way.                          *)
(***************************************************************************)
ClearsDone == {i \in Events("clear") : ~log[i].raised}

C2_FirstValidEnds ==
    InQuery =>
        /\ \A i \in ValidReads :
              /\ i = Len(log)
              /\ pc = "done" /\ returned = "value"
              /\ value = Parsed(log[i].data)
              /\ Cardinality(Events("clear")) = log[i].att + 1
              /\ WriteCount = Cardinality(ClearsDone)
              /\ WriteCount <= log[i].att + 1
              /\ (\A j \in Events("clear") : ~log[j].raised)
                     => WriteCount = log[i].att + 1
        /\ returned = "value" => ValidReads # {}

C2_Witness ==
    /\ InQuery /\ op.cls = "PR" /\ pc = "done" /\ returned = "value"
    /\ \E i \in ValidReads : log[i].att = 2
    /\ \E j \in Events("clear") : log[j].raised
    /\ \E j \in Events("read") : log[j].att = 1 /\ log[j].data = <<>>
    /\ WriteCount = 2

(***************************************************************************)
(* C3  In the write engines a well-formed 5-byte acknowledgement decides   *)
(* the write at once: status 0x00 returns True, status 0x02 or 0xFF        *)
(* returns False, and nothing follows that read, whatever budget remains.  *)
(***************************************************************************)
WellFormedAck(r) == Len(r) = 5 /\ r[1] = 232 /\ r[2] = 153
DefinitiveAck(r) == WellFormedAck(r) /\ r[4] \in {0, 2, 255}
DefinitiveAckReads == {i \in ReadsIn("write") : DefinitiveAck(log[i].data)}

C3_DefinitiveAckDecides ==
    InWriteEngine =>
        \A i \in DefinitiveAckReads :
            /\ i = Len(log)
            /\ pc = "done"
            /\ returned = (IF log[i].data[4] = 0 THEN "True" ELSE "False")
            /\ WriteCount <= log[i].att + 1
            /\ log[i].att < op.max_retries

C3_Witness ==
    /\ InWriteEngine /\ op.cls = "ES" /\ pc = "done" /\ op.max_retries = 3
    /\ \E i \in DefinitiveAckReads :
          log[i].att = 0 /\ log[i].data[4] = 2
    /\ WriteCount = 1 /\ returned = "False"

(***************************************************************************)
(* C4  As claimed: in the write engines an acknowledgement with matching   *)
(* address/command bytes and a status other than 0x00, 0x02, 0xFF ends the *)
(* write as a failure on that attempt; the frame is not sent again.        *)
(***************************************************************************)
UnknownStatusAck(r) == WellFormedAck(r) /\ r[4] \notin {0, 2, 255}

C4_UnknownStatusTerminal ==
    InWriteEngine =>
        \A i \in {j \in ReadsIn("write") : UnknownStatusAck(log[j].data)} :
            /\ pc = "done" /\ returned = "False"
            /\ \A j \in Events("write") : j < i

(***************************************************************************)
(* C5  In the write engines a communication failure on the acknowledgement *)
(* (fewer than 5 bytes, no bytes, address/command mismatch) consumes one   *)
(* attempt and is retried: when every attempt ends that way, exactly       *)
(* max_retries write frames are sent and the call returns False.           *)
(***************************************************************************)
AckCommFailure(r) == Len(r) < 5 \/ r[1] # 232 \/ r[2] # 153

CommFailuresOnly ==
    \A i \in 1..Len(log) :
        /\ ~log[i].raised
        /\ log[i].ev = "write" => log[i].n = Len(log[i].data)
        /\ log[i].ev = "read" => AckCommFailure(log[i].data)

C5_CommFailureRetried ==
    (InWriteEngine /\ frame # <<>> /\ CommFailuresOnly)
    => /\ \A i \in Events("write") : log[i].data = frame
       /\ Cardinality(Events("read")) = WriteCount
       /\ pc = "write" => WriteCount = attempt /\ attempt <= op.max_retries
       /\ pc = "done" => WriteCount = op.max_retries /\ returned = "False"

C5_Witness ==
    /\ InWriteEngine /\ op.cls = "PS" /\ pc = "done" /\ op.max_retries = 3
    /\ CommFailuresOnly
    /\ \E i \in Events("read") : log[i].data = <<>>
    /\ \E i \in Events("read") : Len(log[i].data) = 4
    /\ \E i \in Events("read") : Len(log[i].data) = 5 /\ log[i].data[1] # 232
    /\ WriteCount = 3 /\ returned = "False"

(***************************************************************************)
(* C6  Full-replace range validation: set_probe_params with an energy or   *)
(* time outside 0..7 or a threshold outside 0..3, and set_probe_p_values   *)
(* with a vector of length other than 17 or an element outside 0..31,      *)
(* return False without any call on the port.                              *)
(***************************************************************************)
EnergyArgsOutOfRange(p) ==
    \/ \E k \in {"energy1", "energy2", "energy3", "time1", "time2", "time3"} :
          p[k] < 0 \/ p[k] > 7
    \/ \E k \in {"threshold1", "threshold2", "threshold3"} :
          p[k] < 0 \/ p[k] > 3

PValueArgsRefused(v) ==
    \/ Len(v) # 17
    \/ \E i \in 1..Len(v) : v[i] < 0 \/ v[i] > 31

FullReplaceOutOfRange ==
    \/ op.name = "set_probe_params" /\ EnergyArgsOutOfRange(op.params)
    \/ op.name = "set_probe_p_values" /\ PValueArgsRefused(op.params)

C6_RangeValidationNoIO ==
    FullReplaceOutOfRange
    => /\ log = <<>>
       /\ pc = "done" /\ returned = "False"

C6_Witness ==
    /\ op.name = "set_probe_params" /\ op.probe_num = 1
    /\ op.params.threshold3 = 4
    /\ pc = "done" /\ returned = "False" /\ log = <<>>

(***************************************************************************)
(* C7  As claimed: set_range_energy with energy=8, time=8 or threshold=4   *)
(* and set_individual_p_values with an update value of 32 are rejected     *)
(* before any call on the port: nothing is written, not even the query     *)
(* command of the base read.                                               *)
(***************************************************************************)
PartialUpdateOutOfRange ==
    \/ /\ op.name = "set_range_energy"
       /\ (op.energy = 8 \/ op.time_val = Some(8) \/ op.threshold = Some(4))
    \/ /\ op.name = "set_individual_p_values"
       /\ \E i \in 1..Len(op.p_updates) : op.p_updates[i].value = 32

C7_PartialRangeRejectedBeforeIO ==
    PartialUpdateOutOfRange => TransportCalls = {} /\ WriteCount = 0

(***************************************************************************)
(* C8  Probe numbers are validated per table before any I/O: with a probe  *)
(* number outside 1..9 (energy reader, P-value reader and setter) or       *)
(* outside 1..12 (energy setter) the operation fails and no call is made   *)
(* on the port; a probe number inside the domain is not refused: an        *)
(* operation whose other arguments are acceptable and whose budget is at   *)
(* least 1 goes on to the port.                                            *)
(***************************************************************************)
OtherArgsAcceptable ==
    /\ op.name = "set_probe_params" => ~EnergyArgsOutOfRange(op.params)
    /\ op.name = "set_probe_p_values" => ~PValueArgsRefused(op.params)
    /\ op.name = "set_range_energy" => op.range_m \in {25, 15, 65}
    /\ op.name = "apply_preset" =>
           op.preset_name \in {"narrow", "medium", "wide", "ultra_wide",
                               "default"}
    /\ op.name \in {"query_probe", "set_probe_params", "set_probe_p_values"}
           => op.max_retries >= 1

C8_ProbeDomainBeforeIO ==
    (pc # "idle" /\ op.name # "main") =>
        /\ op.probe_num \notin ProbeDomain(op.cls) =>
              /\ log = <<>>
              /\ pc \in {"base", "done"}
              /\ pc = "done" => returned \in {"None", "False", "raise"}
        /\ (op.probe_num \in ProbeDomain(op.cls) /\ OtherArgsAcceptable
            /\ pc = "done") => TransportCalls # {}

C8_Witness ==
    /\ op.cls = "ES" /\ op.name = "set_probe_params" /\ op.probe_num = 13
    /\ op.permanent
    /\ pc = "done" /\ returned = "False" /\ log = <<>>

(***************************************************************************)
(* C9  As claimed: every core operation returns a value to its caller for  *)
(* every probe number, every argument and every behaviour of the port; no  *)
(* exception leaves query_probe, read_probe_params, read_probe_p_values,   *)
(* set_probe_params or set_probe_p_values.                                 *)
(***************************************************************************)
C9_NeverRaises ==
    pc = "done" => returned \in {"value", "None", "True", "False"}

(***************************************************************************)
(* C10  A partial update never writes from an unknown base: in             *)
(* set_range_energy and set_individual_p_values, when the read of the      *)
(* current profile gives no profile the operation returns False, and every *)
(* call on the port made after the base read follows a base read that      *)
(* delivered a full-length response with the protocol's header, whose      *)
(* profile is the base of the update.                                      *)
(***************************************************************************)
BaseDelivered(r) ==
    /\ Len(r) = ResponseLength(op.cls)
    /\ r[1] = 232 /\ r[2] = 153

BaseReads == {i \in ReadsIn("base") : BaseDelivered(log[i].data)}

BaseProfile(r) ==
    IF op.cls = "ES" THEN EnergyParams(SubSeq(r, 4, 12)) ELSE SubSeq(r, 4, 20)

C10_NoWriteFromUnknownBase ==
    InPartialUpdate =>
        /\ \A i \in 1..Len(log) :
              log[i].ph # "base" =>
                  \E j \in BaseReads :
                      j < i /\ current = BaseProfile(log[j].data)
        /\ (pc \in {"write", "verify", "done"}
            /\ BaseReads = {})
               => /\ pc = "done" /\ returned = "False"
                  /\ WriteFrames = {}

C10_Witness ==
    /\ op.name = "set_range_energy" /\ op.probe_num = 1 /\ op.energy = 4
    /\ pc = "done" /\ returned = "False"
    /\ \E i \in Events("read") : log[i].ph = "base" /\ Len(log[i].data) = 14
    /\ WriteCount = 1 /\ WriteFrames = {}

(***************************************************************************)
(* C11  Partial-update correctness: every write frame sent by              *)
(* set_range_energy carries the profile just read with only the fields of  *)
(* the selected range changed (its energy, and its time and threshold only *)
(* when they were supplied), and every write frame sent by                 *)
(* set_individual_p_values carries the values just read with exactly the   *)
(* named elements replaced; every other profile byte of the frame is the   *)
(* byte that was read.                                                     *)
(***************************************************************************)
\* offset in frame and response of the first field of the selected range
RangeOffset == IF op.range_m = 25 THEN 3 ELSE IF op.range_m = 15 THEN 6 ELSE 9

\* the byte the frame has to carry at offset k (0-based), read being the
\* response of the base read
EnergyByteExpected(read, k) ==
    IF k = RangeOffset THEN op.energy
    ELSE IF k = RangeOffset + 1 /\ op.time_val # None THEN op.time_val[1]
    ELSE IF k = RangeOffset + 2 /\ op.threshold # None THEN op.threshold[1]
    ELSE read[k + 1]

PValueByteExpected(read, k) ==
    IF \E u \in 1..Len(op.p_updates) : op.p_updates[u].name = PNames[k - 2]
    THEN LET u == CHOOSE u \in 1..Len(op.p_updates) :
                      op.p_updates[u].name = PNames[k - 2]
         IN  op.p_updates[u].value
    ELSE read[k + 1]

SentWriteFrames == {i \in Events("write") : log[i].ph = "write"}

C11_PartialUpdateOverlay ==
    InPartialUpdate =>
        \A i \in SentWriteFrames :
            \E j \in BaseReads :
                /\ j < i
                /\ op.cls = "ES" =>
                      /\ Len(log[i].data) = 15
                      /\ \A k \in 3..11 :
                            log[i].data[k + 1] =
                                EnergyByteExpected(log[j].data, k)
                /\ op.cls = "PS" =>
                      /\ Len(log[i].data) = 21
                      /\ \A k \in 3..19 :
                            log[i].data[k + 1] =
                                PValueByteExpected(log[j].data, k)

C11_Witness ==
    /\ op.name = "set_range_energy" /\ op.range_m = 15
    /\ op.time_val = Some(3) /\ op.threshold = Some(1)
    /\ \E i \in SentWriteFrames :
          SubSeq(log[i].data, 4, 12) = <<3, 2, 2, 7, 3, 1, 5, 6, 2>>
    /\ \E j \in BaseReads :
          SubSeq(log[j].data, 4, 12) = EnergyProfileB

(***************************************************************************)
(* C12  As claimed: the base profile of a partial update is taken only     *)
(* from a Valid response: after a base read of 15 (energy) or 21 (P-value) *)
(* bytes whose echoed parameter byte is not the requested query code, or   *)
(* whose last byte is not the XOR of the preceding bytes, the partial      *)
(* update stops with False and sends no write frame.                       *)
(***************************************************************************)
WrongEchoOrChecksum(r) ==
    /\ Len(r) = ResponseLength(op.cls)
    /\ \/ r[3] # QueryCode(op.cls, op.probe_num)
       \/ r[Len(r)] # calculate_bcc(SubSeq(r, 1, Len(r) - 1))

C12_BaseOnlyFromValid ==
    InPartialUpdate =>
        \A j \in ReadsIn("base") :
            WrongEchoOrChecksum(log[j].data) =>
                /\ pc = "done" /\ returned = "False"
                /\ SentWriteFrames = {}

(***************************************************************************)
(* C13  Preset application with verification: when apply_preset on a valid *)
(* probe has had its write acknowledged with status 0x00 and the           *)
(* verification re-read returns a vector, the call returns True if that    *)
(* vector is exactly the preset's 17 values and False if it differs from   *)
(* them in any element.                                                    *)
(***************************************************************************)
\* a re-read that gives the caller a vector: 21 bytes, header, checksum
VectorReturned(r) ==
    /\ Len(r) = 21 /\ r[1] = 232 /\ r[2] = 153
    /\ r[21] = calculate_bcc(SubSeq(r, 1, 20))

VerifyVectors ==
    {i \in ReadsIn("verify") : VectorReturned(log[i].data)}

DiffersInOne(v, w) ==
    Cardinality({k \in 1..17 : v[k] # w[k]}) = 1

C13_PresetVerification ==
    (op.name = "apply_preset" /\ op.verify) =>
        /\ \A i \in VerifyVectors :
              /\ \E a \in DefinitiveAckReads :
                    a < i /\ log[a].data[4] = 0
              /\ pc = "done"
              /\ returned =
                    (IF SubSeq(log[i].data, 4, 20) =
                            PS_BEAM_PRESETS[op.preset_name]
                     THEN "True" ELSE "False")
        /\ pc = "verify" => \E a \in DefinitiveAckReads : log[a].data[4] = 0

C13_Witness ==
    /\ op.name = "apply_preset" /\ op.preset_name = "narrow"
    /\ op.probe_num = 1 /\ op.verify
    /\ PS_BEAM_PRESETS["narrow"] =
           <<31, 31, 31, 30, 26, 21, 16, 16, 13, 0, 0, 0, 0, 3, 1, 0, 1>>
    /\ \E i \in VerifyVectors :
          DiffersInOne(SubSeq(log[i].data, 4, 20), PS_BEAM_PRESETS["narrow"])
    /\ pc = "done" /\ returned = "False"

(***************************************************************************)
(* C14  As claimed: verification of a partial update requires the whole    *)
(* profile to match: when set_range_energy or set_individual_p_values was  *)
(* asked to verify, its write was acknowledged and the re-read returned a  *)
(* profile, the operation returns True only if that profile equals the     *)
(* submitted one element for element.                                      *)
(***************************************************************************)
\* a re-read that gives the caller a profile
ProfileReturned(r) ==
    IF op.cls = "ES" THEN Len(r) = 15 /\ r[1] = 232 /\ r[2] = 153
    ELSE VectorReturned(r)

\* the profile bytes of a frame or response
ProfileBytes(r) == SubSeq(r, 4, ResponseLength(op.cls) - 1 -
                                (IF op.cls = "ES" THEN 2 ELSE 0))

C14_VerifyWholeProfile ==
    (InPartialUpdate /\ op.verify /\ pc = "done" /\ returned = "True") =>
        \A i \in ReadsIn("verify") :
            ProfileReturned(log[i].data) =>
                \A w \in SentWriteFrames :
                    ProfileBytes(log[i].data) = ProfileBytes(log[w].data)

(***************************************************************************)
(* C15  A sweep (read_all_probes of both readers) queries probes 1 to 9 in *)
(* ascending order, one after the other, goes on to the next probe after a *)
(* probe that failed, sleeps the inter-probe delay after every probe, and  *)
(* returns exactly the profiles of the probes that answered Valid, in      *)
(* ascending probe order and without duplicates.                           *)
(***************************************************************************)
InSweep == op.name = "main"

ValidFor(cls, probe_num, r) ==
    /\ Len(r) = ResponseLength(cls)
    /\ r[1] = 232 /\ r[2] = 153
    /\ r[3] = QueryCode(cls, probe_num)
    /\ r[Len(r)] = calculate_bcc(SubSeq(r, 1, Len(r) - 1))

\* probes queried so far, and those of them that answered Valid
ProbesQueried == {log[i].att : i \in Events("query_probe")}
ProbesAnswered ==
    {log[i].att : i \in {j \in Events("query_probe") :
                            ValidFor(op.cls, log[j].att, log[j].data)}}

\* the answer of probe k: the query of probe k is the (2k-1)-th event
AnswerOf(k) == log[2 * k - 1].data

ParsedFor(cls, probe_num, r) ==
    IF cls = "ER" THEN ER_parse_response(r, probe_num)
    ELSE PR_parse_response(r, probe_num)

\* the sweep so far: probes 1, 2, ... queried in this order, each followed
\* by the delay; the results are of probes queried, in ascending order
SweepInOrder ==
    InSweep =>
        /\ Len(log) % 2 = 0
        /\ \A k \in 1..(Len(log) \div 2) :
              /\ log[2 * k - 1].ev = "query_probe" /\ log[2 * k - 1].att = k
              /\ log[2 * k].ev = "sleep" /\ log[2 * k].n = 100
        /\ pc = "sweep" => Len(log) = 2 * (probe - 1)
        /\ (pc \in {"exit", "done"} /\ probe # 0) => ProbesQueried = 1..9
        /\ \A i \in 1..Len(results) :
              /\ results[i].probe_num \in ProbesQueried
              /\ \A j \in 1..Len(results) :
                    i < j => results[i].probe_num < results[j].probe_num

\* one iteration: probe k is queried and the delay slept whatever the
\* answer; its profile is appended exactly when the answer is Valid
SweepIteration ==
    (InSweep /\ pc = "sweep" /\ pc' = "sweep") =>
        /\ probe \in 1..9 /\ probe' = probe + 1
        /\ Len(log') = Len(log) + 2
        /\ SubSeq(log', 1, Len(log)) = log
        /\ log'[Len(log) + 1].ev = "query_probe"
        /\ log'[Len(log) + 1].att = probe
        /\ log'[Len(log) + 2].ev = "sleep"
        /\ results' =
              IF ValidFor(op.cls, probe, log'[Len(log) + 1].data)
              THEN Append(results, ParsedFor(op.cls, probe,
                                             log'[Len(log) + 1].data))
              ELSE results

\* the sweep starts empty at probe 1 and returns what it has collected
SweepEnds ==
    /\ (pc = "idle" /\ pc' = "sweep") =>
           probe' = 1 /\ results' = <<>> /\ log' = <<>>
    /\ (pc = "sweep" /\ pc' = "exit") =>
           probe = 10 /\ results' = results /\ log' = log

C15_SweepOrderAndResults ==
    []SweepInOrder /\ [][SweepIteration /\ SweepEnds]_vars

C15_Witness ==
    /\ InSweep /\ op.cls = "ER" /\ pc = "exit"
    /\ Len(results) = 7 /\ results[3].probe_num = 4
    /\ AnswerOf(3) = <<>> /\ Len(AnswerOf(5)) = 15
    /\ ProbesQueried = 1..9
    /\ ProbesAnswered = (1..9) \ {3, 5}

(***************************************************************************)
(* C16  As claimed: the top-level flows of the energy reader and of the    *)
(* P-value reader report the all-success outcome (exit code 0) only when   *)
(* all 9 probes were read; a sweep in which a probe failed does not end    *)
(* with exit code 0.                                                       *)
(***************************************************************************)
C16_ExitZeroOnlyWhenAllRead ==
    (InSweep /\ pc = "done" /\ returned = "exit 0") =>
        /\ Len(results) = 9
        /\ ProbesAnswered = 1..9


(***************************************************************************)
(* C17  validate_response of both readers accepts a response if and only   *)
(* if its length is the expected one (15 energy, 21 P-value), byte 0 is    *)
(* 0xE8, byte 1 is 0x99, byte 2 is the query code of the requested probe   *)
(* and the last byte is the XOR of all bytes before it; query_probe        *)
(* returns a profile only from a response validate_response accepts, and   *)
(* the profile is the one parsed from it.                                  *)
(***************************************************************************)
\* 2^k for a bit position of a byte
Pow2(k) == IF k = 0 THEN 1 ELSE IF k = 1 THEN 2 ELSE IF k = 2 THEN 4 ELSE IF k = 3 THEN 8 ELSE IF k = 4 THEN 16 ELSE IF k = 5 THEN 32 ELSE IF k = 6 THEN 64 ELSE 128

\* bit k of the XOR of bytes is the parity of the bytes that have bit k set
BitParity(s, k) ==
    Cardinality({i \in 1..Len(s) : (s[i] \div Pow2(k)) % 2 = 1}) % 2

XorOfAll(s) ==
    BitParity(s, 0) + 2 * BitParity(s, 1) + 4 * BitParity(s, 2)
    + 8 * BitParity(s, 3) + 16 * BitParity(s, 4) + 32 * BitParity(s, 5)
    + 64 * BitParity(s, 6) + 128 * BitParity(s, 7)

AcceptanceConditions(cls, probe_num, r) ==
    /\ Len(r) = (IF cls = "ER" THEN 15 ELSE 21)
    /\ r[1] = 232
    /\ r[2] = 153
    /\ r[3] = (IF cls = "ER" THEN 208 ELSE 224) + probe_num
    /\ r[Len(r)] = XorOfAll(SubSeq(r, 1, Len(r) - 1))

ValidateResponse(cls, probe_num, r) ==
    IF cls = "ER" THEN ER_validate_response(r, probe_num)
    ELSE PR_validate_response(r, probe_num)

C17_ClassifierValidity ==
    (InQuery /\ op.probe_num \in 1..9) =>
        /\ \A i \in ReadsIn("query") :
              ValidateResponse(op.cls, op.probe_num, log[i].data)
              <=> AcceptanceConditions(op.cls, op.probe_num, log[i].data)
        /\ returned = "value" =>
              /\ Len(log) \in ReadsIn("query")
              /\ ValidateResponse(op.cls, op.probe_num, log[Len(log)].data)
              /\ value = Parsed(log[Len(log)].data)

\* an accepted response after one rejected for its echoed code alone and
\* one rejected for its checksum alone
C17_Witness ==
    /\ InQuery /\ op.cls = "ER" /\ op.probe_num = 9
    /\ pc = "done" /\ returned = "value"
    /\ AcceptanceConditions("ER", 9, log[Len(log)].data)
    /\ \E i \in ReadsIn("query") :
          /\ AcceptanceConditions("ER", 0, log[i].data)
          /\ log[i].data[3] = 208
    /\ \E i \in ReadsIn("query") :
          /\ Len(log[i].data) = 15 /\ log[i].data[3] = 217
          /\ log[i].data[1] = 232
          /\ ~AcceptanceConditions("ER", 9, log[i].data)


(***************************************************************************)
(* C18  As claimed: from a valid query response R, R cut by one byte, R    *)
(* with one payload bit flipped and the checksum kept, R with another      *)
(* address byte, and the empty byte string get four different outcomes     *)
(* from the readers' query_probe (Incomplete, ChecksumMismatch, Malformed, *)
(* NoResponse), none of them Valid.                                        *)
(***************************************************************************)
\* the valid responses of the requested probe
WellFormedResponses(cls, probe_num) ==
    {r \in (IF cls = "ER" THEN ER_Responses(probe_num)
            ELSE PR_Responses(probe_num)) :
        AcceptanceConditions(cls, probe_num, r)}

\* the bytes in which r and R differ
DifferAt(r, R) == {k \in 1..Len(R) : r[k] # R[k]}

\* a and b differ in exactly one bit
OneBitApart(a, b) ==
    \E k \in 0..7 :
        /\ (a \div Pow2(k)) % 2 # (b \div Pow2(k)) % 2
        /\ \A j \in (0..7) \ {k} : (a \div Pow2(j)) % 2 = (b \div Pow2(j)) % 2

\* how a response read was derived from a valid one
Derivation(cls, probe_num, r) ==
    IF r = <<>> THEN "empty"
    ELSE IF \E R \in WellFormedResponses(cls, probe_num) :
                r = SubSeq(R, 1, Len(R) - 1) THEN "cut by one byte"
    ELSE IF \E R \in WellFormedResponses(cls, probe_num) :
                /\ Len(r) = Len(R) /\ DifferAt(r, R) = {1} THEN "address byte"
    ELSE IF \E R \in WellFormedResponses(cls, probe_num) :
                /\ Len(r) = Len(R)
                /\ \E k \in 4..(Len(R) - 1) :
                      DifferAt(r, R) = {k} /\ OneBitApart(r[k], R[k])
         THEN "payload bit"
    ELSE "other"

ReadOutcome(cls, probe_num, r) ==
    IF cls = "ER" THEN ER_read_outcome(r, probe_num)
    ELSE PR_read_outcome(r, probe_num)

C18_OutcomesDistinguished ==
    (InQuery /\ op.probe_num \in 1..9) =>
        \A i \in ReadsIn("query") :
            LET di == Derivation(op.cls, op.probe_num, log[i].data)
                oi == ReadOutcome(op.cls, op.probe_num, log[i].data)
            IN  di # "other" =>
                   /\ oi # "valid"
                   /\ \A j \in ReadsIn("query") :
                         LET dj == Derivation(op.cls, op.probe_num, log[j].data)
                             oj == ReadOutcome(op.cls, op.probe_num,
                                               log[j].data)
                         IN  (dj # "other" /\ dj # di) => oj # oi


(***************************************************************************)
(* C19  As claimed: an answer with more bytes than the expected fixed      *)
(* length (15 or 21 for a query, 5 for a write acknowledgement) is treated *)
(* as a length mismatch, not as a valid response or a definitive           *)
(* acknowledgement: no call returns a profile or a success from the read   *)
(* of such an answer.                                                      *)
(***************************************************************************)
\* reads made when more bytes than asked for had arrived at the port
LongAnswerReads ==
    {i \in Events("read") :
        /\ ~log[i].raised
        /\ i > 1 /\ log[i - 1].ev = "sleep"
        /\ Len(log[i - 1].data) > log[i].n}

C19_LongerNeverAccepted ==
    (InQuery \/ InWriteEngine) =>
        \A i \in LongAnswerReads :
            ~(i = Len(log) /\ pc = "done" /\ returned \in {"value", "True"})


(***************************************************************************)
(* C20  calculate_bcc of a byte sequence of length >= 1 is the left-to-    *)
(* right XOR fold of its bytes, and every command frame the code builds    *)
(* (the 4-byte query frames of the readers and the setters, the 15-byte    *)
(* energy write frames, the 21-byte P-value write frames) ends with the    *)
(* XOR of all its bytes before the last.  Checked in every step on the     *)
(* frame built, the frames written and the byte strings read.              *)
(***************************************************************************)
\* acc ^ s[1] ^ s[2] ^ ... taken from the left
RECURSIVE XorFoldLeft(_, _)
XorFoldLeft(acc, s) ==
    IF s = <<>> THEN acc ELSE XorFoldLeft(Xor(acc, Head(s)), Tail(s))

ChecksumIsFold(s) ==
    /\ calculate_bcc(s) = XorFoldLeft(0, s)
    /\ calculate_bcc(s) = XorOfAll(s)

FrameClosed(f) ==
    /\ Len(f) \in {4, 15, 21}
    /\ f[Len(f)] = XorOfAll(SubSeq(f, 1, Len(f) - 1))

\* the events a step adds to the log
Logged == IF Len(log') > Len(log) THEN (Len(log) + 1)..Len(log') ELSE {}

ChecksumStep ==
    /\ (frame' # frame /\ frame' # <<>>) =>
          FrameClosed(frame') /\ ChecksumIsFold(frame')
    /\ \A i \in Logged :
          /\ log'[i].ev = "write" =>
                FrameClosed(log'[i].data) /\ ChecksumIsFold(log'[i].data)
          /\ (log'[i].ev = "read" /\ log'[i].data # <<>>) =>
                ChecksumIsFold(log'[i].data)

C20_ChecksumProperty == [][ChecksumStep]_vars

\* a P-value write that sent its 21-byte frame and read an acknowledgement
C20_Witness ==
    /\ op.name = "set_probe_p_values" /\ pc = "done"
    /\ \E i \in Events("write") :
          /\ Len(log[i].data) = 21
          /\ log[i].data[21] \notin {0, log[i].data[20]}
          /\ log[i].data = frame
    /\ \E i \in Events("read") : Len(log[i].data) = 5


(***************************************************************************)
(* C21  Round trip: for every in-range energy profile and every in-range   *)
(* P-value vector, the payload of the write frame built from it, put in a  *)
(* response with the fixed header, the query code of the probe and a       *)
(* correct checksum, is accepted by the reader's validate_response and     *)
(* parsed by parse_response into the original values in the original       *)
(* positions.                                                              *)
(***************************************************************************)
InRoundTrip == op.name = "round_trip"

\* the nine values of a profile parsed by the energy reader, in frame order
ParsedEnergyValues(v) ==
    <<v.range_2_5m.energy, v.range_2_5m.time, v.range_2_5m.threshold,
      v.range_1_5m.energy, v.range_1_5m.time, v.range_1_5m.threshold,
      v.range_6_5m.energy, v.range_6_5m.time, v.range_6_5m.threshold>>

\* the seventeen values of a profile parsed by the P-value reader
ParsedPValues(v) ==
    [i \in 1..17 |-> IF i <= 12 THEN v.main_phase_params[PNames[i]].value
                     ELSE v.auxiliary_params[PNames[i]].value]

C21_RoundTrip ==
    (InRoundTrip /\ pc = "done") =>
        /\ returned = "value"
        /\ op.cls = "ES" =>
              ParsedEnergyValues(value) =
                  [i \in 1..9 |-> submitted[EnergyKeys[i]]]
        /\ op.cls = "PS" => ParsedPValues(value) = submitted

C21_Witness ==
    /\ InRoundTrip /\ pc = "done" /\ op.cls = "ES" /\ op.probe_num = 9
    /\ op.permanent
    /\ submitted = EnergyParams(<<7, 6, 3, 5, 4, 2, 3, 1, 0>>)
    /\ frame[3] = 121 /\ current[3] = 217
    /\ returned = "value"
    /\ ParsedEnergyValues(value) = <<7, 6, 3, 5, 4, 2, 3, 1, 0>>


(***************************************************************************)
(* C22  Determinism of the codec: the bytes a full write or a query puts   *)
(* on the wire are fixed by the probe, the profile and the permanent flag  *)
(* of the call alone, so applying the same profile twice sends the same    *)
(* bytes, and within one call every attempt writes a frame byte-identical  *)
(* to the frame of the first attempt.                                      *)
(***************************************************************************)
\* the frame of the call in progress, from its arguments alone
FrameOfCall ==
    IF op.cls = "ER" THEN ER_create_query_command(op.probe_num)
    ELSE IF op.cls = "PR" THEN PR_create_query_command(op.probe_num)
    ELSE IF op.cls = "ES"
         THEN ES_write_frame(op.probe_num, op.params, op.permanent)
    ELSE PS_write_frame(op.probe_num, op.params, op.permanent)

Triple(e, t, th) == [energy |-> e, time |-> t, threshold |-> th]

Probe3Response ==
    <<232, 153, 211, 2, 2, 2, 1, 0, 2, 5, 6, 2, 44, 64>>
    \o <<XorOfAll(<<232, 153, 211, 2, 2, 2, 1, 0, 2, 5, 6, 2, 44, 64>>)>>

C23_EnergyParsing ==
    (InQuery /\ op.cls = "ER" /\ returned = "value") =>
        LET r == log[Len(log)].data
        IN  /\ Len(r) = 15
            /\ value.range_2_5m = Triple(r[4], r[5], r[6])
            /\ value.range_1_5m = Triple(r[7], r[8], r[9])
            /\ value.range_6_5m = Triple(r[10], r[11], r[12])
            /\ (op.probe_num = 3 /\ r = Probe3Response) =>
                  /\ value.range_2_5m = Triple(2, 2, 2)
                  /\ value.range_1_5m = Triple(1, 0, 2)
                  /\ value.range_6_5m = Triple(5, 6, 2)

C23_Witness ==
    /\ InQuery /\ op.cls = "ER" /\ op.probe_num = 3
    /\ pc = "done" /\ returned = "value"
    /\ log[Len(log)].ev = "read" /\ log[Len(log)].data = Probe3Response
    /\ value.range_1_5m = Triple(1, 0, 2)
    /\ value.range_6_5m = Triple(5, 6, 2)


(***************************************************************************)
(* C24  Write frame layout: every energy write frame sent is the 15 bytes  *)
(* E8 99 PARAM E1 T1 Th1 E2 T2 Th2 E3 T3 Th3 2C 40 BCC, the two fixed      *)
(* bytes being 2C 40 whatever the probe returned for them; every P-value   *)
(* write frame sent is the 21 bytes E8 99 PARAM P1..P17 BCC; every query   *)
(* frame sent is the 4 bytes E8 99 PARAM BCC.  Checked on the frames each  *)
(* step writes.                                                            *)
(***************************************************************************)
EnergyWriteLayout(f, n, p) ==
    /\ Len(f) = 15
    /\ f[1] = 232 /\ f[2] = 153
    /\ f[3] \in {176 + n, 112 + n}
    /\ SubSeq(f, 4, 12) = [i \in 1..9 |-> p[EnergyKeys[i]]]
    /\ f[13] = 44 /\ f[14] = 64
    /\ f[15] = XorOfAll(SubSeq(f, 1, 14))

PValueWriteLayout(f, n, v) ==
    /\ Len(f) = 21
    /\ f[1] = 232 /\ f[2] = 153
    /\ f[3] \in {192 + n, 128 + n}
    /\ SubSeq(f, 4, 20) = v
    /\ f[21] = XorOfAll(SubSeq(f, 1, 20))

QueryLayout(f, cls, n) ==
    /\ Len(f) = 4
    /\ f[1] = 232 /\ f[2] = 153
    /\ f[3] = QueryCode(cls, n)
    /\ f[4] = XorOfAll(SubSeq(f, 1, 3))

LayoutStep ==
    \A i \in Logged :
        log'[i].ev = "write" =>
            IF log'[i].ph = "write"
            THEN IF op'.cls = "ES"
                 THEN EnergyWriteLayout(log'[i].data, op'.probe_num, submitted')
                 ELSE PValueWriteLayout(log'[i].data, op'.probe_num, submitted')
            ELSE QueryLayout(log'[i].data, op'.cls, op'.probe_num)

C24_FrameLayout == [][LayoutStep]_vars

\* a partial energy update whose base read returned other fixed bytes and
\* whose write frame carries 2C 40
C24_Witness ==
    /\ op.name = "set_range_energy"
    /\ \E i \in ReadsIn("base") :
          /\ Len(log[i].data) = 15
          /\ log[i].data[13] = 45 /\ log[i].data[14] = 65
    /\ \E j \in Events("write") :
          /\ log[j].ph = "write" /\ Len(log[j].data) = 15
          /\ log[j].data[13] = 44 /\ log[j].data[14] = 64
          /\ log[j].data[4] = 3


(***************************************************************************)
(* C25  Temporary and permanent writes go through distinct code tables:    *)
(* the third byte of a write frame for probe n is the temporary code of n  *)
(* (energy 0xB0+n, P-value 0xC0+n) exactly when permanent is false and the *)
(* permanent code of n (energy 0x70+n, P-value 0x80+n) exactly when        *)
(* permanent is true; the flag given to set_range_energy,                  *)
(* set_individual_p_values and apply_preset is the one the write uses.     *)
(***************************************************************************)
TemporaryCode(cls, n) == (IF cls = "ES" THEN 176 ELSE 192) + n
PermanentCode(cls, n) == (IF cls = "ES" THEN 112 ELSE 128) + n

C25_WriteRouting ==
    \A i \in SentWriteFrames :
        /\ log[i].data[3] = TemporaryCode(op.cls, op.probe_num)
              <=> ~op.permanent
        /\ log[i].data[3] = PermanentCode(op.cls, op.probe_num)
              <=> op.permanent

\* a permanent preset and its write frame
C25_Witness ==
    /\ op.name = "apply_preset" /\ op.permanent /\ op.probe_num = 9
    /\ \E i \in SentWriteFrames : log[i].data[3] = 137
    /\ pc = "done" /\ returned = "True"


(***************************************************************************)
(* C26  As claimed: in every attempt of query_probe, set_probe_params and  *)
(* set_probe_p_values and in the single reads of the setters the port      *)
(* calls come in the order clear, write, flush, delay, read; every write   *)
(* is preceded in its attempt by a clear; and once a frame has been        *)
(* written in full no other frame is written before a read for it has been *)
(* issued.                                                                 *)
(***************************************************************************)
SameAttempt(i, j) == log[i].ph = log[j].ph /\ log[i].att = log[j].att

\* event i is directly preceded by an event ev of its attempt that returned
Follows(i, ev) ==
    /\ i > 1
    /\ log[i - 1].ev = ev /\ ~log[i - 1].raised
    /\ SameAttempt(i - 1, i)

\* the delay before a read: the sleep that follows a flush that returned
PreReadSleeps ==
    {i \in Events("sleep") :
        i > 1 /\ log[i - 1].ev = "flush" /\ ~log[i - 1].raised}

AttemptOrder ==
    /\ \A i \in Events("write") : Follows(i, "clear")
    /\ \A i \in Events("flush") : Follows(i, "write")
    /\ \A i \in Events("read") : Follows(i, "sleep") /\ (i - 1) \in PreReadSleeps
    /\ \A i \in PreReadSleeps :
          /\ SameAttempt(i - 1, i)
          /\ i < Len(log) => log[i + 1].ev = "read" /\ SameAttempt(i, i + 1)
    /\ \A i \in Events("clear"), j \in TransportCalls :
          ~(j < i /\ SameAttempt(j, i))

WrittenInFull == {i \in Events("write") :
                     ~log[i].raised /\ log[i].n = Len(log[i].data)}

ReadIssuedBetween(i, j) ==
    \E k \in Events("read") : i < k /\ k < j /\ SameAttempt(i, k)

C26_AttemptOrdering_AsClaimed ==
    op.name # "main" =>
        /\ AttemptOrder
        /\ \A i \in WrittenInFull, j \in Events("write") :
              i < j => ReadIssuedBetween(i, j)

(***************************************************************************)
(* C26 amended: the order of the port calls and the clear before every     *)
(* write are as claimed; once a frame has been written in full no other    *)
(* frame is written before a read for it has been issued, unless the flush *)
(* that follows the write raised: that attempt ends without a read and the *)
(* next one clears the input buffer and writes the frame again.            *)
(***************************************************************************)
FlushRaisedAfter(i) ==
    /\ i < Len(log)
    /\ log[i + 1].ev = "flush" /\ log[i + 1].raised

C26_AttemptOrdering ==
    op.name # "main" =>
        /\ AttemptOrder
        /\ \A i \in WrittenInFull, j \in Events("write") :
              i < j => ReadIssuedBetween(i, j) \/ FlushRaisedAfter(i)

\* a write of P-values whose first attempt wrote the frame in full and
\* ended in a raising flush, and whose second attempt read an answer
C26_Witness ==
    /\ InWriteEngine /\ op.cls = "PS"
    /\ Cardinality(Events("write")) = 2
    /\ \E i \in WrittenInFull : log[i].att = 0 /\ FlushRaisedAfter(i)
    /\ \E k \in Events("read") : log[k].att = 1 /\ ~log[k].raised

(***************************************************************************)
(* C27  Short write handling.  In query_probe, set_probe_params and        *)
(* set_probe_p_values, an attempt whose write reports fewer bytes than the *)
(* frame holds, and whose flush returns, performs no read and no delay;    *)
(* it is one of the max_retries attempts, so the attempt counter advances  *)
(* by one and nothing follows it when it was the last; and the next        *)
(* attempt, if there is one, starts with a clear of the input buffer.      *)
(***************************************************************************)
ShortWrites ==
    {i \in Events("write") : ~log[i].raised /\ log[i].n < Len(log[i].data)}

FlushReturnedAfter(i) ==
    /\ i < Len(log)
    /\ log[i + 1].ev = "flush"
    /\ ~log[i + 1].raised

ShortWriteHandled(i) ==
    /\ \A j \in 1..Len(log) :
          SameAttempt(i, j) => log[j].ev \notin {"read", "sleep"}
    /\ log[i].att < op.max_retries
    /\ \A j \in 1..Len(log) : j > i + 1 => log[j].att > log[i].att
    /\ IF i + 1 = Len(log)
       THEN attempt = log[i].att + 1
       ELSE /\ i + 2 <= Len(log)
            /\ log[i + 2].ev = "clear"
            /\ log[i + 2].ph = log[i].ph
            /\ log[i + 2].att = log[i].att + 1
            /\ log[i + 2].att < op.max_retries

\* the statement for every write that reports fewer bytes
C27_ShortWrite_AsClaimed ==
    (InQuery \/ InWriteEngine) =>
        \A i \in ShortWrites : ShortWriteHandled(i)

C27_ShortWrite ==
    (InQuery \/ InWriteEngine) =>
        \A i \in ShortWrites : FlushReturnedAfter(i) => ShortWriteHandled(i)

\* a P-value query with two attempts, both cut short by a short write
C27_Witness ==
    /\ InQuery /\ op.cls = "PR" /\ op.max_retries = 2
    /\ returned = "None"
    /\ Cardinality({i \in ShortWrites : FlushReturnedAfter(i)}) = 2
    /\ Len(log) = 6


(***************************************************************************)
(* C28  Transport faults consume a retry.  In query_probe,                 *)
(* set_probe_params and set_probe_p_values, when clear, write, flush or    *)
(* read raises in attempt k, the call does not raise: nothing but the      *)
(* inter-retry delay follows in attempt k, the attempt counter has moved   *)
(* past k, the call does not return before attempt k+1 has run when        *)
(* k+1 < max_retries, and whatever the port does, the attempts of a call   *)
(* never number more than max_retries.                                     *)
(***************************************************************************)
RaisedCalls == {i \in TransportCalls : log[i].raised}

AttemptsMade == {log[i].att : i \in Events("clear")}

FaultConsumesRetry(i) ==
    /\ returned # "raise"
    /\ \A j \in 1..Len(log) :
          (j > i /\ SameAttempt(i, j)) => j = i + 1 /\ log[j].ev = "sleep"
    /\ log[i].att < attempt
    /\ log[i].att + 1 < op.max_retries =>
          IF returned = "pending"
          THEN (log[i].att + 1) \in AttemptsMade \/ attempt = log[i].att + 1
          ELSE (log[i].att + 1) \in AttemptsMade

C28_FaultsConsumeRetries ==
    (InQuery \/ InWriteEngine) =>
        /\ \A i \in RaisedCalls : FaultConsumesRetry(i)
        /\ Cardinality(Events("clear")) <= op.max_retries
        /\ Cardinality(Events("clear")) = Cardinality(AttemptsMade)
        /\ \A i \in 1..Len(log) : log[i].att < op.max_retries
        /\ attempt <= op.max_retries

\* a write of P-values whose first attempt ends in a read that raises and
\* whose second ends in a clear that raises
C28_Witness ==
    /\ InWriteEngine /\ op.cls = "PS" /\ op.max_retries = 2
    /\ returned = "False"
    /\ \E i \in RaisedCalls : log[i].ev = "read" /\ log[i].att = 0
    /\ \E i \in RaisedCalls : log[i].ev = "clear" /\ log[i].att = 1


(***************************************************************************)
(* C29  Inter-retry delay.  In query_probe of both readers, every attempt  *)
(* that ends in a read that is not accepted (no response, incomplete,      *)
(* malformed, checksum mismatch) or in a call that raises, and is not the  *)
(* last attempt, is followed by the 200 ms delay before the next attempt   *)
(* begins; and no such delay is performed after the last attempt.          *)
(***************************************************************************)
\* the calls in which an attempt of the query ended without a valid response
FailedEnds ==
    {i \in TransportCalls :
        /\ log[i].ph = "query"
        /\ \/ log[i].raised
           \/ /\ log[i].ev = "read"
              /\ ReadOutcome(op.cls, op.probe_num, log[i].data) # "valid"}

InterRetrySleeps == Events("sleep") \ PreReadSleeps

IsInterRetrySleep(j, att) ==
    /\ j \in InterRetrySleeps
    /\ log[j].att = att
    /\ log[j].n = 200

DelayedBeforeNextAttempt(i) ==
    IF log[i].att < op.max_retries - 1
    THEN /\ i < Len(log) => IsInterRetrySleep(i + 1, log[i].att)
         /\ i + 1 < Len(log) =>
               log[i + 2].ev = "clear" /\ log[i + 2].att = log[i].att + 1
    ELSE i = Len(log)

C29_InterRetryDelay ==
    InQuery =>
        /\ \A i \in FailedEnds : DelayedBeforeNextAttempt(i)
        /\ \A j \in InterRetrySleeps : log[j].att < op.max_retries - 1


(***************************************************************************)
(* C30  Progressive pre-read delay.  In query_probe the delay between the  *)
(* write of the frame and the read of the response in attempt i (from 0)   *)
(* is 100 ms + 100 ms * i in the energy reader and 100 ms + 50 ms * i in   *)
(* the P-value reader, so that of two attempts of a call the later one     *)
(* waits strictly longer.                                                  *)
(***************************************************************************)
DelayStepMs(cls) == IF cls = "ER" THEN 100 ELSE 50

\* the sleeps of the query that stand between a write and a read
QueryPreReadSleeps ==
    {i \in PreReadSleeps :
        /\ log[i].ph = "query"
        /\ i > 2 /\ log[i - 2].ev = "write" /\ SameAttempt(i - 2, i)
        /\ i < Len(log) /\ log[i + 1].ev = "read" /\ SameAttempt(i, i + 1)}

C30_ProgressiveDelay ==
    InQuery =>
        /\ \A i \in Events("read") : (i - 1) \in QueryPreReadSleeps
        /\ \A i \in QueryPreReadSleeps :
              log[i].n = 100 + DelayStepMs(op.cls) * log[i].att
        /\ \A i, j \in QueryPreReadSleeps :
              log[i].att < log[j].att => log[i].n < log[j].n

\* three attempts of the energy reader waited 100, 200 and 300 ms
C30_Witness ==
    /\ InQuery /\ op.cls = "ER" /\ op.max_retries = 3
    /\ {log[i].n : i \in QueryPreReadSleeps} = {100, 200, 300}

(***************************************************************************)
(* C31  The inter-retry delay exceeds the pre-read delay.  In query_probe  *)
(* of both readers with the default budget of 3 attempts, in every attempt *)
(* that is followed by the inter-retry delay, that delay (200 ms) is       *)
(* strictly longer than the delay the attempt waited before its read.      *)
(***************************************************************************)
DefaultBudget(cls) ==
    IF cls = "ER" THEN ER_DEFAULT_MAX_RETRIES ELSE PR_DEFAULT_MAX_RETRIES

C31_InterRetryLarger ==
    (InQuery /\ op.max_retries = DefaultBudget(op.cls)) =>
        \A j \in InterRetrySleeps, i \in QueryPreReadSleeps :
            SameAttempt(i, j) => log[j].n = 200 /\ log[j].n > log[i].n


(***************************************************************************)
(* C32  The reads of the profile operations are retried.  In               *)
(* set_range_energy, set_individual_p_values and apply_preset, when the    *)
(* first query frame of the base read or of the verification re-read gets  *)
(* no response or its exchange raises, the operation does not end before   *)
(* a second query frame of that read has been sent.                        *)
(***************************************************************************)
InProfileOperation ==
    op.name \in {"set_range_energy", "set_individual_p_values", "apply_preset"}

FirstReadFailed(ph) ==
    \E i \in TransportCalls :
        /\ log[i].ph = ph /\ log[i].att = 0
        /\ \/ log[i].raised
           \/ log[i].ev = "read" /\ log[i].data = <<>>

QueryFramesOf(ph) == {i \in Events("write") : log[i].ph = ph}

C32_ProfileReadsRetried ==
    (InProfileOperation /\ pc = "done") =>
        \A ph \in {"base", "verify"} :
            FirstReadFailed(ph) => Cardinality(QueryFramesOf(ph)) >= 2


(***************************************************************************)
(* C33  Only in-range values reach the wire.  Whatever the setters are     *)
(* asked and whatever the port answers to their reads, every write frame   *)
(* sent carries energy and time bytes in 0..7 and threshold bytes in 0..3  *)
(* (energy frames) or 17 P bytes in 0..31 (P-value frames); and a partial  *)
(* update whose base read holds a value outside its range in a field the   *)
(* update does not touch sends no write frame.                             *)
(***************************************************************************)
\* the largest value of the payload byte at offset k of an energy frame
EnergyFieldMax(k) == IF k \in {5, 8, 11} THEN 3 ELSE 7

FrameInRange(f) ==
    IF op.cls = "ES"
    THEN /\ Len(f) = 15
         /\ \A k \in 3..11 : At(f, k) \in 0..EnergyFieldMax(k)
    ELSE /\ Len(f) = 21
         /\ \A k \in 3..19 : At(f, k) \in 0..31

\* offsets, in a frame, of the fields a partial update replaces
TouchedOffsets ==
    IF op.name = "set_range_energy"
    THEN LET first == IF op.range_m = 25 THEN 3
                      ELSE IF op.range_m = 15 THEN 6
                      ELSE IF op.range_m = 65 THEN 9 ELSE 0
         IN  IF first = 0 THEN {}
             ELSE {first}
                  \cup (IF op.time_val # None THEN {first + 1} ELSE {})
                  \cup (IF op.threshold # None THEN {first + 2} ELSE {})
    ELSE {PIndex(op.p_updates[i].name) + 3 :
             i \in {j \in 1..Len(op.p_updates) :
                       op.p_updates[j].name \in PS_P_DESCRIPTIONS}}

\* the base profile as the payload bytes of a frame, by offset
BaseByte(k) ==
    IF op.name = "set_range_energy"
    THEN <<current.energy1, current.time1, current.threshold1,
           current.energy2, current.time2, current.threshold2,
           current.energy3, current.time3, current.threshold3>>[k - 2]
    ELSE current[k - 2]

BaseOutOfRangeUntouched ==
    /\ InPartialUpdate /\ current # <<>>
    /\ \E k \in (IF op.cls = "ES" THEN 3..11 ELSE 3..19) \ TouchedOffsets :
          BaseByte(k) \notin 0..(IF op.cls = "ES" THEN EnergyFieldMax(k) ELSE 31)

C33_OnlyInRangeWritten ==
    /\ \A i \in WriteFrames : FrameInRange(log[i].data)
    /\ BaseOutOfRangeUntouched => WriteFrames = {}

\* a partial update of the first range on a base read whose third range
\* holds energy 9 ended without a write frame
C33_Witness ==
    /\ op.name = "set_range_energy" /\ op.range_m = 25 /\ op.energy = 4
    /\ BaseOutOfRangeUntouched /\ current.energy3 = 9
    /\ pc = "done" /\ returned = "False"
    /\ WriteFrames = {}


(***************************************************************************)
(* C34  The outcome of a write depends on the acknowledgement only through *)
(* its length, its bytes 0 and 1 and its status byte.  Whenever an attempt *)
(* of set_probe_params or set_probe_p_values reads an acknowledgement, the *)
(* same attempt reading any acknowledgement that differs from it in the    *)
(* echo byte (offset 2) and the checksum byte (offset 4) only would have   *)
(* returned the same result or gone on to the same next attempt; so two    *)
(* runs that differ in these bytes only return the same result after the   *)
(* same number of frames, and status 0 with a wrong checksum is success.   *)
(***************************************************************************)
TwinBytes == {0, 113, 255}

\* the acknowledgements that differ from r at offsets 2 and 4 at most
AckTwins(r) ==
    IF Len(r) >= 5
    THEN {SetByte(SetByte(r, 2, e), 4, c) : e \in TwinBytes, c \in TwinBytes}
    ELSE IF Len(r) >= 3
    THEN {SetByte(r, 2, e) : e \in TwinBytes}
    ELSE {r}

AckOutcome(cls, r) ==
    IF cls = "ES" THEN ES_ack_outcome(r) ELSE PS_ack_outcome(r)

\* the step taken is the step the attempt takes on the acknowledgement r2
StepAsOn(r2) ==
    IF AckOutcome(op.cls, r2) = "retry"
    THEN /\ attempt' = attempt + 1
         /\ returned' = returned /\ pc' = pc
    ELSE /\ attempt' = attempt
         /\ returned' = AckOutcome(op.cls, r2) /\ pc' = "done"

AckStep ==
    (InWriteEngine /\ pc = "write") =>
        \A i \in Logged :
            (log'[i].ev = "read" /\ ~log'[i].raised) =>
                \A r2 \in AckTwins(log'[i].data) : StepAsOn(r2)

C34_AckNonInterference == [][AckStep]_vars

\* a write that returned True on an acknowledgement with status 0 whose
\* echo is not the code written and whose checksum byte is wrong
C34_Witness ==
    /\ InWriteEngine /\ returned = "True"
    /\ \E i \in Events("read") :
          /\ i = Len(log)
          /\ Len(log[i].data) = 5
          /\ At(log[i].data, 3) = 0
          /\ At(log[i].data, 2) # At(frame, 2)
          /\ At(log[i].data, 4) # calculate_bcc(SubSeq(log[i].data, 1, 4))


(***************************************************************************)
(* C35  A failed verification read does not fail the operation.  In        *)
(* set_range_energy, set_individual_p_values and apply_preset, when the    *)
(* write was acknowledged with status 0, verification was asked for, and   *)
(* the verification re-read gave no profile, the operation returns True.   *)
(***************************************************************************)
AcknowledgedOk ==
    \E i \in ReadsIn("write") :
        /\ Len(log[i].data) >= 5
        /\ At(log[i].data, 0) = ADDR_CODE /\ At(log[i].data, 1) = CMD_CODE
        /\ At(log[i].data, 3) = 0

\* the verification re-read was made and returned None
VerifyReadFailed ==
    /\ \E i \in TransportCalls : log[i].ph = "verify"
    /\ \/ \E i \in TransportCalls : log[i].ph = "verify" /\ log[i].raised
       \/ \E i \in ReadsIn("verify") :
             IF op.cls = "ES" THEN ~ES_read_accepts(log[i].data)
             ELSE ~PS_read_accepts(log[i].data)

C35_FailedVerifyIsSuccess ==
    (InProfileOperation /\ pc = "done" /\ op.verify
        /\ AcknowledgedOk /\ VerifyReadFailed) => returned = "True"

\* a preset acknowledged with status 0 whose re-read got no answer
C35_Witness ==
    /\ op.name = "apply_preset" /\ pc = "done" /\ op.verify
    /\ AcknowledgedOk /\ VerifyReadFailed
    /\ \E i \in ReadsIn("verify") : log[i].data = <<>>
    /\ returned = "True"


(***************************************************************************)
(* C36  Verification only after an acknowledged write.  In                 *)
(* set_range_energy, set_individual_p_values and apply_preset, a call of   *)
(* the verification phase is made only when verify is set and the write    *)
(* engine returned True, and only after the write engine's last attempt;   *)
(* when the write engine returned False or verify is not set, the last     *)
(* call logged belongs to the write engine and the operation returns what  *)
(* the write engine returned.                                              *)
(***************************************************************************)
InPhase(ph) == {i \in 1..Len(log) : log[i].ph = ph}

\* what the write engine returned, from the acknowledgements it read
WriteEngineResult ==
    IF \E i \in ReadsIn("write") : AckOutcome(op.cls, log[i].data) = "True"
    THEN "True" ELSE "False"

C36_VerifyOnlyAfterSuccess ==
    InProfileOperation =>
        /\ InPhase("verify") # {} =>
              /\ op.verify
              /\ WriteEngineResult = "True"
              /\ \A i \in InPhase("verify") :
                    i < Len(log) => log[i + 1].ph = "verify"
        /\ (/\ pc = "done" /\ InPhase("write") # {}
            /\ (~op.verify \/ WriteEngineResult = "False")) =>
              /\ log[Len(log)].ph = "write"
              /\ returned = WriteEngineResult

\* a range update with verify set whose three write attempts all failed
C36_Witness ==
    /\ op.name = "set_range_energy" /\ op.verify /\ pc = "done"
    /\ Cardinality(WriteFrames) = 3
    /\ WriteEngineResult = "False" /\ returned = "False"
    /\ InPhase("verify") = {}


(***************************************************************************)
(* C37  Termination within a bounded number of frames.  When every call on *)
(* the port returns or raises, set_range_energy, set_individual_p_values   *)
(* and apply_preset return, and by then they have written at most one      *)
(* frame for the base read (partial updates only), max_retries frames for  *)
(* the write attempts and one frame for the verification read.             *)
(***************************************************************************)
FramesIn(ph) == Cardinality({i \in Events("write") : log[i].ph = ph})

WithinFrameBudget ==
    InProfileOperation =>
        /\ FramesIn("base") <= (IF InPartialUpdate THEN 1 ELSE 0)
        /\ FramesIn("write") <= op.max_retries
        /\ FramesIn("verify") <= 1
        /\ WriteCount = FramesIn("base") + FramesIn("write") + FramesIn("verify")

\* no step of a running operation leaves it where it was
EveryStepAdvances ==
    ProfileRunning =>
        /\ <<pc, attempt>>' # <<pc, attempt>>
        /\ op' = op
        /\ pc' \in {"write", "verify", "done"}
        /\ attempt' \in {attempt, attempt + 1}

C37_TerminatesWithinBudget ==
    /\ []WithinFrameBudget
    /\ [][EveryStepAdvances]_vars
    /\ ProfileRunning ~> (pc = "done")

\* a partial update that returned after 1 + 3 + 1 frames
C37_Witness ==
    /\ InPartialUpdate /\ pc = "done" /\ op.max_retries = 3
    /\ FramesIn("base") = 1 /\ FramesIn("write") = 3 /\ FramesIn("verify") = 1

(***************************************************************************)
(* C38  A sparse update with an invalid entry writes nothing.  When an     *)
(* entry of the update given to set_individual_p_values names a parameter  *)
(* outside P1..P17 or carries a value outside 0..31, no write frame is     *)
(* sent and no overlaid profile is handed to the write engine, whatever    *)
(* entries came before it, and the operation returns False.                *)
(***************************************************************************)
InvalidEntries(p_updates) ==
    {i \in 1..Len(p_updates) :
        \/ p_updates[i].name \notin {PNames[k] : k \in 1..17}
        \/ p_updates[i].value \notin 0..31}

C38_InvalidEntryWritesNothing ==
    (op.name = "set_individual_p_values"
        /\ InvalidEntries(op.p_updates) # {}) =>
        /\ WriteFrames = {}
        /\ submitted = <<>>
        /\ pc \in {"base", "done"}
        /\ pc = "done" => returned = "False"

\* an update whose second entry is refused, after a base read that gave
\* the current values: False, and no write frame
C38_Witness ==
    /\ op.name = "set_individual_p_values" /\ pc = "done"
    /\ Len(op.p_updates) = 2 /\ InvalidEntries(op.p_updates) = {2}
    /\ current # <<>>
    /\ returned = "False" /\ WriteFrames = {}



(***************************************************************************)
(* C39  Parameter codes identify their target: the energy query codes are  *)
(* 0xD1..0xDC, energy temporary 0xB1..0xBC, energy permanent 0x71..0x7C,   *)
(* P-value query 0xE1..0xE9, P-value temporary 0xC1..0xC9 and P-value      *)
(* permanent 0x81..0x89; no code stands for two targets; each reader's     *)
(* table agrees with the query table of its setter on the probes they      *)
(* share; and the third byte of every frame sent names exactly one         *)
(* (family, kind, probe), the one of the operation that sent it.           *)
(***************************************************************************)
TableTargets(family, kind, table) ==
    {[family |-> family, kind |-> kind, probe |-> n, code |-> table[n]] :
        n \in DOMAIN table}

ParamTargets ==
    TableTargets("energy", "query", ES_PROBE_QUERY_PARAMS)
        \cup TableTargets("energy", "temporary", ES_PROBE_TEMP_PARAMS)
        \cup TableTargets("energy", "permanent", ES_PROBE_PERM_PARAMS)
        \cup TableTargets("p_value", "query", PS_PROBE_QUERY_PARAMS)
        \cup TableTargets("p_value", "temporary", PS_PROBE_TEMP_PARAMS)
        \cup TableTargets("p_value", "permanent", PS_PROBE_PERM_PARAMS)
        \cup TableTargets("energy", "query", ER_PROBE_PARAMS)
        \cup TableTargets("p_value", "query", PR_PROBE_PARAMS)

TargetsOf(code) == {t \in ParamTargets : t.code = code}

TablesAsStated ==
    /\ ES_PROBE_QUERY_PARAMS = [n \in 1..12 |-> 208 + n]
    /\ ES_PROBE_TEMP_PARAMS = [n \in 1..12 |-> 176 + n]
    /\ ES_PROBE_PERM_PARAMS = [n \in 1..12 |-> 112 + n]
    /\ PS_PROBE_QUERY_PARAMS = [n \in 1..9 |-> 224 + n]
    /\ PS_PROBE_TEMP_PARAMS = [n \in 1..9 |-> 192 + n]
    /\ PS_PROBE_PERM_PARAMS = [n \in 1..9 |-> 128 + n]

ReadersAgreeWithSetters ==
    /\ \A n \in DOMAIN ER_PROBE_PARAMS \cap DOMAIN ES_PROBE_QUERY_PARAMS :
          ER_PROBE_PARAMS[n] = ES_PROBE_QUERY_PARAMS[n]
    /\ \A n \in DOMAIN PR_PROBE_PARAMS \cap DOMAIN PS_PROBE_QUERY_PARAMS :
          PR_PROBE_PARAMS[n] = PS_PROBE_QUERY_PARAMS[n]

NoCodeTwice == \A t1, t2 \in ParamTargets : t1.code = t2.code => t1 = t2

\* the target the running operation addresses with a frame of phase ph
OperationTarget(ph) ==
    [family |-> IF op.cls \in {"ER", "ES"} THEN "energy" ELSE "p_value",
     kind |-> IF ph # "write" THEN "query"
              ELSE IF op.permanent THEN "permanent" ELSE "temporary",
     probe |-> op.probe_num]

FrameNamesItsTarget(i) ==
    /\ Len(log[i].data) >= 3
    /\ \E t \in ParamTargets :
          /\ TargetsOf(log[i].data[3]) = {t}
          /\ [family |-> t.family, kind |-> t.kind, probe |-> t.probe]
                 = OperationTarget(log[i].ph)

C39_CodesIdentifyTargets ==
    /\ TablesAsStated
    /\ NoCodeTwice
    /\ ReadersAgreeWithSetters
    /\ \A i \in Events("write") : FrameNamesItsTarget(i)

\* a permanent P-value write to probe 9 was sent and acknowledged: its
\* third byte 0x89 stands for (p_value, permanent, 9) alone
C39_Witness ==
    /\ op.cls = "PS" /\ op.permanent /\ op.probe_num = 9 /\ pc = "done"
    /\ returned = "True"
    /\ \E i \in Events("write") :
          /\ log[i].ph = "write" /\ log[i].data[3] = 137
          /\ Cardinality(TargetsOf(137)) = 1

=============================================================================
